---- MODULE Spec2Model ----
(***************************************************************************)
(* SentimentFlow-V2: the tiered query builder, the URL deduplicator, the   *)
(* Aho-Corasick mention matcher and the zero-shot sentiment scorer,        *)
(* modelled from src/src/utils/*.py, and the pipeline that runs them,      *)
(* modelled from src/src/pipeline/__init__.py and src/main.py, with the    *)
(* paginated fetch and its worker pool of src/src/utils/api_utils.py.      *)
(*                                                                         *)
(* Each component is a function or object of the program.  A component's   *)
(* specification (SpecDedup, SpecQuery, ...) draws the component's inputs  *)
(* in its initial states and applies the operations to them; Spec is the   *)
(* union of the component specifications.  Python values are modelled as   *)
(* follows: str as a TLA+ string where only equality and emptiness are     *)
(* read, and as a sequence of one-character strings where the code looks   *)
(* inside it; None as the value None; list as a sequence; dict as a        *)
(* function; set as a set.                                                 *)
(***************************************************************************)
EXTENDS Integers, Sequences, FiniteSets, TLC

VARIABLES
    comp,               \* the component the behaviour exercises
    \* ---- deduplicate_articles
    all_articles,       \* its argument: the fetched articles, in encounter order
    unique_articles,    \* its result: dict url -> article
    dedup_pc,           \* "ready" before the call, "done" after it
    \* ---- build_sector_queries
    all_startups_data,  \* its argument: the rows of fetch_startups_for_api
    existing_startup_ids, \* its argument: the ids that have a sentiment row
    now,                \* the wall clock datetime.now() reads
    hashseed,           \* the interpreter's string hash seed (fixed per process)
    query_results,      \* the values returned by the calls made so far
    \* ---- StartupSearch
    automaton,          \* self.automaton
    startup_map,        \* self.startup_map
    builds,             \* the number of build_engine calls so far
    built_from,         \* the `startups` argument of the latest of them
    last_find,          \* the latest find_startups_in_text call and its outcome
    finds,              \* the find_startups_in_text call of every thread
    \* ---- analyze_article_sentiments
    job_article,        \* its argument `article`: the id of the article row
    job_startups,       \* its argument `startups`: the startups found in it
    scoring,            \* the call: what the backend did, what the call returned
    \* ---- analyze_all_articles_in_bulk
    articles_to_process, \* its argument: the jobs
    score_backend,      \* the scoring backend, a function of the pair
    bulk_runs,          \* the calls so far: mini-batch size and records returned
    \* ---- main_pipeline and main.py
    pc,                 \* the step of main_pipeline that comes next
    conn,               \* conn: "None", "open", "lost" (the server is gone), "closed"
    fault,              \* the call that raises in this run, if the run gets to it
    db,                 \* the committed contents of the database
    db_start,           \* the committed contents when the run started
    tx,                 \* the uncommitted writes of conn's transaction
    sector_queries,     \* the local of that name
    new_article_data,   \* the local of that name
    articles_from_db,   \* the local of that name, as the list of its rows
    match_at,           \* the place in articles_from_db of the matching loop
    match_errors,       \* the number of articles whose matching raised
    all_sentiment_records, \* the local of that name
    events,             \* the calls main_pipeline has made, in order
    failure,            \* the call that raised into main_pipeline, or "none"
    result,             \* main_pipeline: "running", "returned", "raised"
    report,             \* main.py: "none", "completed", "exit1"
    \* ---- fetch_articles_threaded
    task_outcome,       \* per query: what its fetch_sector_articles call does
    futures,            \* the futures submitted so far, in submission order
    num_threads,        \* len(executor._threads)
    idle_semaphore,     \* executor._idle_semaphore
    peak_running,       \* the most tasks that have been running at one time
    threaded_articles,  \* the local all_articles of fetch_articles_threaded
    fetch_pc,           \* "submit", "collect", "returned"
    \* ---- fetch_sector_articles
    server,             \* per page number: what the request for it gets
    page,               \* the local of that name
    requested,          \* the page numbers requested so far, in order
    sector_articles,    \* the local all_articles of fetch_sector_articles
    pages_pc            \* "loop", "returned"

varsDedup == <<all_articles, unique_articles, dedup_pc>>
varsQuery == <<all_startups_data, existing_startup_ids, now, hashseed, query_results>>
varsMatcher == <<automaton, startup_map, builds, built_from, last_find, finds>>
varsScorer == <<job_article, job_startups, scoring>>
varsBulk == <<articles_to_process, score_backend, bulk_runs>>
varsPipeline == <<pc, conn, fault, db, db_start, tx, sector_queries,
                  new_article_data, articles_from_db, match_at, match_errors,
                  all_sentiment_records, events, failure, result, report>>
varsPool == <<task_outcome, futures, num_threads, idle_semaphore,
              peak_running, threaded_articles, fetch_pc>>
varsPages == <<server, page, requested, sector_articles, pages_pc>>
varsFetch == <<varsPool, varsPages>>
vars == <<comp, varsDedup, varsQuery, varsMatcher, varsScorer, varsBulk,
          varsPipeline, varsFetch>>

(***************************************************************************)
(* Python values                                                           *)
(***************************************************************************)
\* Python's None, where the other values of the variable are strings.
None == "<None>"

\* bool(x) of an Optional[str]: None and "" are falsy, every other string
\* (a blank one included) is truthy.
Truthy(x) == x /= None /\ x /= ""

\* The empty dict.
EmptyDict == [k \in {} |-> None]

\* d[k] = v of a dict d.
DictSet(d, k, v) == [x \in (DOMAIN d) \cup {k} |-> IF x = k THEN v ELSE d[x]]

Range(s) == {s[i] : i \in DOMAIN s}

\* Sequences over S of length at most n.
SeqsUpTo(S, n) == UNION {[1..k -> S] : k \in 0..n}

(***************************************************************************)
(* deduplicate_articles (api_utils.py)                                     *)
(***************************************************************************)
MaxArticles == 3

\* The url of a raw article: absent or null (article.get("url") is None),
\* empty, or a URL.
ArticleUrls == {None, "", "a", "b"}
ArticleTitles == {"A1", "A2"}
RawArticles == [url : ArticleUrls, title : ArticleTitles]

\* A mutation of DedupLoop: the last article of a URL replaces the earlier one.
RECURSIVE DedupLoopLastWins(_, _, _)
DedupLoopLastWins(articles, i, unique) ==
    IF i > Len(articles) THEN unique
    ELSE LET url == articles[i].url IN
         IF ~Truthy(url)
         THEN DedupLoopLastWins(articles, i + 1, unique)
         ELSE DedupLoopLastWins(articles, i + 1, DictSet(unique, url, articles[i]))

\* The loop of deduplicate_articles from its i-th article on, `unique` being
\* the dict built so far.
RECURSIVE DedupLoop(_, _, _)
DedupLoop(articles, i, unique) ==
    IF i > Len(articles) THEN unique
    ELSE LET url == articles[i].url IN
         IF ~Truthy(url) \/ url \in DOMAIN unique
         THEN DedupLoop(articles, i + 1, unique)
         ELSE DedupLoop(articles, i + 1, DictSet(unique, url, articles[i]))

deduplicate_articles(articles) == DedupLoop(articles, 1, EmptyDict)

(***************************************************************************)
(* build_sector_queries (api_utils.py)                                     *)
(***************************************************************************)
MaxStartups == 2

\* timedelta(days=1) and timedelta(days=30)
OneDay == 1
ThirtyDays == 30

StartupIds == 1..MaxStartups
SectorIds == {1, 2}

\* sec.name of the LEFT JOIN of fetch_startups_for_api: the name of sector 1,
\* and NULL for a sectorId without a Sector row.
SectorNameOf(sector_id) == IF sector_id = 1 THEN "Fintech" ELSE None

\* The values of findingKeywords after fetch_startups_for_api (a list, never
\* None): empty, with an empty keyword, repeating the sector name, blank.
KeywordLists == {<<>>, <<"", "pay", "Fintech">>, <<" ">>}
Keywords == {"pay", "Fintech", " ", ""}

\* s.name: every startup has its own display name.
StartupNameOf(id) == "N" \o ToString(id)

\* The rows of "Startups" joined with "Sector".
StartupRows ==
    {[id |-> i, name |-> StartupNameOf(i), sectorId |-> sec,
      sectorName |-> SectorNameOf(sec), findingKeywords |-> kws] :
        i \in StartupIds, sec \in SectorIds, kws \in KeywordLists}

\* A result set of fetch_startups_for_api: rows in any order, the primary key
\* id in at most one row.
Catalogs ==
    {c \in SeqsUpTo(StartupRows, MaxStartups) :
        \A i, j \in DOMAIN c : i /= j => c[i].id /= c[j].id}

\* The string hash seeds of a process, each a ranking of the non-empty keyword
\* strings: a set of strings is iterated in the order of its elements' ranks
\* (the empty string, which the code drops after iterating, is put first).
\* Two rankings are tried, one the reverse of the other.
HashSeeds == {f \in [Keywords \ {""} -> 1..Cardinality(Keywords \ {""})] :
                 /\ \A a, b \in Keywords \ {""} : a /= b => f[a] /= f[b]
                 /\ f["pay"] = 2}
Rank(seed, k) == IF k = "" THEN 0 ELSE seed[k]

\* list(S) of a set of strings under the process's hash seed.
RECURSIVE SetIter(_, _)
SetIter(S, seed) ==
    IF S = {} THEN <<>>
    ELSE LET first == CHOOSE k \in S : \A o \in S : Rank(seed, k) <= Rank(seed, o)
         IN <<first>> \o SetIter(S \ {first}, seed)

\* A datetime: a calendar day (the number of days since an epoch) and an hour.
\* The instants at which the clock is read: early and late on one day, and
\* early on the next.
Instants == {[date |-> ThirtyDays, hour |-> 0], [date |-> ThirtyDays, hour |-> 23],
             [date |-> ThirtyDays + 1, hour |-> 0]}
Later(t, u) == t.date < u.date \/ (t.date = u.date /\ t.hour < u.hour)

\* A mutation of Strftime: the hour is part of the date string ("%Y-%m-%d %H").
StrftimeWithHour(dt) == dt.date * 24 + dt.hour

\* strftime("%Y-%m-%d") keeps the calendar day alone; the date string is
\* modelled by the day's number.
Strftime(dt) == dt.date
MinusDays(dt, n) == [dt EXCEPT !.date = @ - n]

\* A mutation of SortedBySector: the rows are left in the order of the catalog.
SortedBySectorUnsorted(startups) == startups

\* sorted(startups, key=itemgetter('sectorId')): a stable insertion sort.
RECURSIVE InsertBySector(_, _)
InsertBySector(sorted, s) ==
    IF sorted = <<>> THEN <<s>>
    ELSE IF sorted[Len(sorted)].sectorId <= s.sectorId
         THEN Append(sorted, s)
         ELSE Append(InsertBySector(SubSeq(sorted, 1, Len(sorted) - 1), s),
                     sorted[Len(sorted)])

RECURSIVE SortedBySector(_)
SortedBySector(startups) ==
    IF startups = <<>> THEN <<>>
    ELSE InsertBySector(SortedBySector(SubSeq(startups, 1, Len(startups) - 1)),
                        startups[Len(startups)])

\* groupby(sorted_startups, key=itemgetter('sectorId')): the runs of
\* consecutive rows with equal sectorId, in order.
RECURSIVE GroupBySector(_)
GroupBySector(sorted) ==
    IF sorted = <<>> THEN <<>>
    ELSE LET key == sorted[1].sectorId
             run == CHOOSE n \in 1..Len(sorted) :
                        /\ \A i \in 1..n : sorted[i].sectorId = key
                        /\ n = Len(sorted) \/ sorted[n + 1].sectorId /= key
         IN <<SubSeq(sorted, 1, run)>> \o
                GroupBySector(SubSeq(sorted, run + 1, Len(sorted)))

\* The (sector_id, from_date, to_date, startups) tuples of one tier.
TierGroups(startups, from_date, to_date) ==
    LET groups == GroupBySector(SortedBySector(startups))
    IN [i \in DOMAIN groups |->
           [sector_id |-> groups[i][1].sectorId, from_date |-> from_date,
            to_date |-> to_date, startups |-> groups[i]]]

\* A mutation of QueryGroups: the two tiers' start dates exchanged.
QueryGroupsSwapped(startups, existing_ids, today) ==
    LET new_startups == SelectSeq(startups, LAMBDA s : s.id \notin existing_ids)
        existing_startups == SelectSeq(startups, LAMBDA s : s.id \in existing_ids)
    IN TierGroups(new_startups, Strftime(MinusDays(today, OneDay)), Strftime(today))
       \o TierGroups(existing_startups, Strftime(MinusDays(today, ThirtyDays)),
                     Strftime(today))

\* Steps 1 to 3 of build_sector_queries: query_groups.
QueryGroups(startups, existing_ids, today) ==
    LET new_startups == SelectSeq(startups, LAMBDA s : s.id \notin existing_ids)
        existing_startups == SelectSeq(startups, LAMBDA s : s.id \in existing_ids)
        one_day_ago == Strftime(MinusDays(today, OneDay))
        thirty_days_ago == Strftime(MinusDays(today, ThirtyDays))
        today_str == Strftime(today)
    IN TierGroups(new_startups, thirty_days_ago, today_str)
       \o TierGroups(existing_startups, one_day_ago, today_str)

\* all_keywords of one group: the truthy sector names, then every keyword of
\* every startup's findingKeywords.
AllKeywords(group) ==
    {group[i].sectorName : i \in {j \in DOMAIN group : Truthy(group[j].sectorName)}}
    \cup UNION {Range(group[i].findingKeywords) : i \in DOMAIN group}

\* A mutation of QuotedKeywords: the empty keywords are kept.
QuotedKeywordsUnfiltered(group, seed) == SetIter(AllKeywords(group), seed)

\* quoted_keywords: the truthy keywords in the set's iteration order.
QuotedKeywords(group, seed) ==
    SelectSeq(SetIter(AllKeywords(group), seed), LAMBDA k : Truthy(k))

\* A mutation of FinalQueries: a group without keywords is not skipped.
RECURSIVE FinalQueriesNoSkip(_, _, _)
FinalQueriesNoSkip(groups, i, seed) ==
    IF i > Len(groups) THEN <<>>
    ELSE LET g == groups[i]
         IN <<[names |-> [j \in DOMAIN g.startups |-> g.startups[j].name],
               keywords |-> QuotedKeywords(g.startups, seed),
               from_date |-> g.from_date, to_date |-> g.to_date]>>
            \o FinalQueriesNoSkip(groups, i + 1, seed)

\* Step 4 of build_sector_queries over query_groups from its i-th tuple on.
\* The string '(' + names joined by OR + ') AND (' + keywords joined by OR +
\* ')' is kept as its two lists.
RECURSIVE FinalQueries(_, _, _)
FinalQueries(groups, i, seed) ==
    IF i > Len(groups) THEN <<>>
    ELSE LET g == groups[i]
             startup_names == [j \in DOMAIN g.startups |-> g.startups[j].name]
             quoted_keywords == QuotedKeywords(g.startups, seed)
         IN IF quoted_keywords = <<>>
            THEN FinalQueries(groups, i + 1, seed)
            ELSE <<[names |-> startup_names, keywords |-> quoted_keywords,
                    from_date |-> g.from_date, to_date |-> g.to_date]>>
                 \o FinalQueries(groups, i + 1, seed)

build_sector_queries(startups, existing_ids, today, seed) ==
    FinalQueries(QueryGroups(startups, existing_ids, today), 1, seed)

(***************************************************************************)
(* StartupSearch (text_utils.py)                                           *)
(***************************************************************************)
MaxEntities == 2
MaxTextLen == 2
MaxBuilds == 2

\* Display names and article texts are sequences of characters.
Chars == {"a", "A", "b", " "}

\* Display names: empty, blank, two that differ in case only, one inside
\* another, one with trailing whitespace.
DisplayNames == {<<>>, <<" ">>, <<"a">>, <<"A">>, <<"a", "b">>, <<"a", " ">>}

EntityIds == 1..MaxEntities

\* The `startups` argument of build_engine: {"id", "name"} dicts, no id twice.
EntityLists ==
    {c \in SeqsUpTo([id : EntityIds, name : DisplayNames], MaxEntities) :
        \A i, j \in DOMAIN c : i /= j => c[i].id /= c[j].id}

Texts == SeqsUpTo(Chars, MaxTextLen)

\* str.lower()
LowerChar(c) == IF c = "A" THEN "a" ELSE c
Lower(s) == [i \in DOMAIN s |-> LowerChar(s[i])]

\* str.strip()
RECURSIVE Strip(_)
Strip(s) ==
    IF s = <<>> THEN s
    ELSE IF s[1] = " " THEN Strip(Tail(s))
    ELSE IF s[Len(s)] = " " THEN Strip(SubSeq(s, 1, Len(s) - 1))
    ELSE s

\* key occurs in text as a substring.
Occurs(key, text) ==
    \E i \in 0..(Len(text) - Len(key)) : SubSeq(text, i + 1, i + Len(key)) = key

\* ahocorasick.Automaton(): no key yet.  `words` is the trie as the dict of
\* its keys' values; kind is the library's EMPTY, TRIE or AHOCORASICK.
NewAutomaton == [kind |-> "EMPTY", words |-> EmptyDict]

\* self.automaton = None
NoAutomaton == [kind |-> "None", words |-> EmptyDict]

\* automaton.add_word(key, value): an empty key is refused; the value of a
\* key already in the trie is replaced.
AddWord(trie, key, value) ==
    IF key = <<>> THEN trie
    ELSE [kind |-> "TRIE", words |-> DictSet(trie.words, key, value)]

\* automaton.make_automaton(): a trie without keys stays EMPTY.
MakeAutomaton(trie) ==
    IF trie.kind = "EMPTY" THEN trie
    ELSE [trie EXCEPT !.kind = "AHOCORASICK"]

\* The values automaton.iter(text) yields: those of the keys occurring in text.
IterValues(trie, text) ==
    {trie.words[k] : k \in {w \in DOMAIN trie.words : Occurs(w, text)}}

\* The loop of build_engine from the i-th startup on: the automaton and the
\* startup_map it leaves.
RECURSIVE BuildLoop(_, _, _, _)
BuildLoop(startups, i, trie, map) ==
    IF i > Len(startups) THEN [automaton |-> trie, startup_map |-> map]
    ELSE LET startup_id == startups[i].id
             startup_name == startups[i].name
         IN IF startup_name = <<>>
            THEN BuildLoop(startups, i + 1, trie, map)
            ELSE BuildLoop(startups, i + 1,
                     AddWord(trie, Strip(Lower(startup_name)), startup_id),
                     DictSet(map, startup_id,
                             [id |-> startup_id, name |-> startup_name]))

\* build_engine(startups) on an object whose startup_map is `map`.
build_engine(startups, map) ==
    IF startups = <<>>
    THEN [automaton |-> NewAutomaton, startup_map |-> map]
    ELSE LET built == BuildLoop(startups, 1, NewAutomaton, map)
         IN [built EXCEPT !.automaton = MakeAutomaton(@)]

\* find_startups_in_text(text): the call returns a set, or automaton.iter
\* raises AttributeError because the automaton was never made.
find_startups_in_text(self_automaton, text) ==
    IF self_automaton.kind = "None"
    THEN [outcome |-> "returned", found_ids |-> {}]
    ELSE IF self_automaton.kind /= "AHOCORASICK"
    THEN [outcome |-> "raised", found_ids |-> {}]
    ELSE [outcome |-> "returned",
          found_ids |-> IterValues(self_automaton, Lower(text))]


\* The threads that call find_startups_in_text on one StartupSearch.
MaxThreads == 2
Threads == 1..MaxThreads

\* The catalogs the matcher they search was built from: none, one name, two
\* names of which one is inside the other, two names that differ in case
\* only, a blank name, two names without a common character.
LookupCatalogs ==
    {<<>>,
     <<[id |-> 1, name |-> <<"a">>]>>,
     <<[id |-> 1, name |-> <<"a">>], [id |-> 2, name |-> <<"a", "b">>]>>,
     <<[id |-> 1, name |-> <<"A">>], [id |-> 2, name |-> <<"a">>]>>,
     <<[id |-> 1, name |-> <<" ">>]>>,
     <<[id |-> 2, name |-> <<"b">>], [id |-> 1, name |-> <<"a", " ">>]>>}

\* The texts they search.
LookupTexts == {<<>>, <<"a">>, <<"A", "b">>}

\* A thread outside find_startups_in_text.
NotFinding == [pc |-> "idle"]

\* A mutation of FreshFoundIds: the set is shared by the calls in progress.
SharedFoundIds == UNION {finds[t].found_ids : t \in {u \in Threads : finds[u].pc /= "idle"}}

\* found_ids = set()
FreshFoundIds == {}

\* The values automaton.iter(text) yields at end_index = e - 1: those of the
\* keys that end at the e-th character of text.
ValuesEndingAt(trie, text, e) ==
    {trie.words[k] :
        k \in {w \in DOMAIN trie.words :
                  Len(w) <= e /\ SubSeq(text, e - Len(w) + 1, e) = w}}
(***************************************************************************)
(* predict_batch_for_startups, analyze_article_sentiments                  *)
(* (sentiment_utils.py)                                                    *)
(***************************************************************************)
MaxJobStartups == 2

\* labels = ["positive", "neutral", "negative"]
Labels == <<"positive", "neutral", "negative">>

\* The {"id", "name"} dicts of startup_map that a job may list.
JobStartups == {[id |-> "s1", name |-> "Swiggy"], [id |-> "s2", name |-> "Zomato"]}

\* The `startups` argument: any list of them, one id possibly twice.
JobStartupLists == SeqsUpTo(JobStartups, MaxJobStartups)

\* The `article` argument: a row of "Articles" with its id.
ArticleRows == {[id |-> "art1", title |-> "t1", content |-> "c1"]}

\* text = f"{article.get('title', '')}. {article.get('content', '')}"
ArticleText(row) == <<row.title, ". ", row.content>>

\* An entailment probability as the backend returns it, in thirds of 0.0001,
\* and round(float(score), 4) of it, in units of 0.0001: 1/3 rounds to 0,
\* 2/3 and 4/3 round to 1.
RawScores == {1, 2, 4}
Round4(raw) == (2 * raw + 3) \div 6

\* The (premise, hypothesis) pairs handed to the tokenizer, in order: for
\* every startup, one hypothesis "The news is <label> for <name>." per label.
Pairs(article_text, startups_arg) ==
    [i \in 1..(3 * Len(startups_arg)) |->
        [text |-> article_text,
         hypothesis |-> [label |-> Labels[((i - 1) % 3) + 1],
                         name |-> startups_arg[((i - 1) \div 3) + 1].name]]]

\* mapping: the (startup id, label) tag of every pair, in the same order.
Mapping(startups_arg) ==
    [i \in 1..(3 * Len(startups_arg)) |->
        [startup_id |-> startups_arg[((i - 1) \div 3) + 1].id,
         label |-> Labels[((i - 1) % 3) + 1]]]

\* {lbl + "Score": 0.0 for lbl in labels}
DefaultScores == [positive |-> 0, neutral |-> 0, negative |-> 0]

Min(a, b) == IF a < b THEN a ELSE b

\* A mutation of AggregateLoop: the startup's scores are reset at every pair.
RECURSIVE AggregateLoopReset(_, _, _, _)
AggregateLoopReset(mapping, entailment_scores, i, results) ==
    IF i > Min(Len(mapping), Len(entailment_scores)) THEN results
    ELSE LET startup_id == mapping[i].startup_id
             data == [DefaultScores EXCEPT
                         ![mapping[i].label] = Round4(entailment_scores[i])]
         IN AggregateLoopReset(mapping, entailment_scores, i + 1,
                               DictSet(results, startup_id, data))

\* for (startup_id, label), score in zip(mapping, entailment_scores): from the
\* i-th pair of the zip on.
RECURSIVE AggregateLoop(_, _, _, _)
AggregateLoop(mapping, entailment_scores, i, results) ==
    IF i > Min(Len(mapping), Len(entailment_scores)) THEN results
    ELSE LET startup_id == mapping[i].startup_id
             before == IF startup_id \in DOMAIN results
                       THEN results[startup_id] ELSE DefaultScores
             data == [before EXCEPT
                         ![mapping[i].label] = Round4(entailment_scores[i])]
         IN AggregateLoop(mapping, entailment_scores, i + 1,
                          DictSet(results, startup_id, data))

\* A mutation of BestLabel: the last label with the maximal score.
BestLabelLast(data) ==
    LET best == CHOOSE k \in 1..3 :
                    /\ \A j \in 1..3 : data[Labels[j]] <= data[Labels[k]]
                    /\ \A j \in (k + 1)..3 : data[Labels[j]] < data[Labels[k]]
    IN Labels[best]

\* max(["positive", "neutral", "negative"], key=lambda x: data[x + "Score"]):
\* the first label with the maximal score.
BestLabel(data) ==
    LET best == CHOOSE k \in 1..3 :
                    /\ \A j \in 1..3 : data[Labels[j]] <= data[Labels[k]]
                    /\ \A j \in 1..(k - 1) : data[Labels[j]] < data[Labels[k]]
    IN Labels[best]

\* What the tokenizer and the model do with n pairs: raise, or return
\* probs[:, 0], one score per pair.
BackendOutcomes(n) ==
    {[raised |-> TRUE, scores |-> <<>>]}
    \cup {[raised |-> FALSE, scores |-> s] : s \in [1..n -> RawScores]}

\* predict_batch_for_startups(article_text, startups) when the backend does
\* `backend`: the dict startup id -> scores and sentiment.
predict_batch_for_startups(article_text, startups_arg, backend) ==
    IF startups_arg = <<>> THEN EmptyDict
    ELSE IF backend.raised THEN EmptyDict
    ELSE LET results == AggregateLoop(Mapping(startups_arg), backend.scores, 1,
                                      EmptyDict)
         IN [sid \in DOMAIN results |->
                [positiveScore |-> results[sid].positive,
                 neutralScore |-> results[sid].neutral,
                 negativeScore |-> results[sid].negative,
                 sentiment |-> BestLabel(results[sid])]]

\* The loop of analyze_article_sentiments over startups from the i-th on.
RECURSIVE DbRecords(_, _, _, _)
DbRecords(article_id, startups_arg, predictions, i) ==
    IF i > Len(startups_arg) THEN <<>>
    ELSE LET sid == startups_arg[i].id IN
         IF sid \notin DOMAIN predictions
         THEN DbRecords(article_id, startups_arg, predictions, i + 1)
         ELSE <<[articleId |-> article_id, startupId |-> sid,
                 positiveScore |-> predictions[sid].positiveScore,
                 neutralScore |-> predictions[sid].neutralScore,
                 negativeScore |-> predictions[sid].negativeScore,
                 sentiment |-> predictions[sid].sentiment]>>
              \o DbRecords(article_id, startups_arg, predictions, i + 1)

\* analyze_article_sentiments(article, startups): it returns a list in every
\* case, the exception of the backend having been caught below it.
analyze_article_sentiments(row, startups_arg, backend) ==
    IF startups_arg = <<>> THEN [outcome |-> "returned", db_records |-> <<>>]
    ELSE LET text == ArticleText(row)
             article_id == row.id
             predictions == predict_batch_for_startups(text, startups_arg, backend)
         IN IF DOMAIN predictions = {}
            THEN [outcome |-> "returned", db_records |-> <<>>]
            ELSE [outcome |-> "returned",
                  db_records |-> DbRecords(article_id, startups_arg, predictions, 1)]

(***************************************************************************)
(* analyze_all_articles_in_bulk (sentiment_utils.py)                       *)
(*                                                                         *)
(* main_pipeline calls it and constants/__init__.py sizes its mini-batches *)
(* (MODEL_BATCH_SIZE); its body is not part of the sources, so it is       *)
(* modelled from section 4.4 of the specification, on top of the pair      *)
(* construction, the rounding and the label choice of                      *)
(* predict_batch_for_startups.                                             *)
(***************************************************************************)
MaxJobs == 2

MODEL_BATCH_SIZE == 32

\* The mini-batch sizes tried: one pair, two pairs (a startup's three pairs
\* fall into different mini-batches), and the configured size.
BatchSizes == {1, 2, MODEL_BATCH_SIZE}

\* The rows of "Articles" the pipeline found startups in.
BulkArticleRows == {[id |-> "art1", title |-> "t1", content |-> "c1"],
                    [id |-> "art2", title |-> "t2", content |-> "c2"]}

\* startups_to_analyze of one article: the startup_map entries of a non-empty
\* set of found ids, in the set's iteration order.
FoundStartupLists ==
    {l \in SeqsUpTo(JobStartups, Cardinality(JobStartups)) :
        /\ l /= <<>>
        /\ \A i, j \in DOMAIN l : i /= j => l[i].id /= l[j].id}

\* articles_to_process: {"article", "startups_to_analyze"} dicts.
JobLists ==
    SeqsUpTo([article : BulkArticleRows, startups_to_analyze : FoundStartupLists],
             MaxJobs)

\* The deterministic scoring backends: the score of a pair is a function of
\* its hypothesis and of its premise (the pairs of the second article score
\* 0.0001 higher).
Backends == [{s.name : s \in JobStartups} \X Range(Labels) -> {1, 2}]
Score(backend, pair) ==
    backend[<<pair.hypothesis.name, pair.hypothesis.label>>]
        + (IF pair.text[1] = "t1" THEN 0 ELSE 3)

\* Step 1: the pairs of every job, each with its (article id, startup id,
\* label) tag.
RECURSIVE BulkPairs(_, _)
BulkPairs(jobs, j) ==
    IF j > Len(jobs) THEN <<>>
    ELSE LET row == jobs[j].article
             found == jobs[j].startups_to_analyze
             pairs == Pairs(ArticleText(row), found)
             mapping == Mapping(found)
         IN [i \in DOMAIN pairs |->
                [pair |-> pairs[i], article_id |-> row.id,
                 startup_id |-> mapping[i].startup_id, label |-> mapping[i].label]]
            \o BulkPairs(jobs, j + 1)

\* A mutation of BatchScores: every mini-batch after the first is scored as
\* the first one was (its scores are read at the offsets of the first).
RECURSIVE BatchScoresStale(_, _, _, _)
BatchScoresStale(tagged, from, batch_size, backend) ==
    IF from > Len(tagged) THEN <<>>
    ELSE LET to == Min(from + batch_size - 1, Len(tagged))
         IN [i \in 1..(to - from + 1) |-> Score(backend, tagged[i].pair)]
            \o BatchScoresStale(tagged, to + 1, batch_size, backend)

\* Step 2: the pairs from place `from` on, cut into mini-batches of
\* batch_size pairs, each scored by one invocation of the backend; the
\* scores of all invocations, in order.
RECURSIVE BatchScores(_, _, _, _)
BatchScores(tagged, from, batch_size, backend) ==
    IF from > Len(tagged) THEN <<>>
    ELSE LET to == Min(from + batch_size - 1, Len(tagged))
         IN [i \in 1..(to - from + 1) |-> Score(backend, tagged[from + i - 1].pair)]
            \o BatchScores(tagged, to + 1, batch_size, backend)

\* Step 3: the scores grouped by (article id, startup id), in the order in
\* which the groups are first met.
RECURSIVE BulkAggregate(_, _, _, _, _)
BulkAggregate(tagged, scores, i, keys, results) ==
    IF i > Len(tagged) THEN [keys |-> keys, results |-> results]
    ELSE LET key == <<tagged[i].article_id, tagged[i].startup_id>>
             before == IF key \in DOMAIN results THEN results[key]
                       ELSE DefaultScores
             data == [before EXCEPT ![tagged[i].label] = Round4(scores[i])]
         IN BulkAggregate(tagged, scores, i + 1,
                          IF key \in DOMAIN results THEN keys ELSE Append(keys, key),
                          DictSet(results, key, data))

\* analyze_all_articles_in_bulk(articles_to_process) with mini-batches of
\* batch_size pairs: one SentimentRecord per (article, startup) pair.
analyze_all_articles_in_bulk(jobs, batch_size, backend) ==
    LET tagged == BulkPairs(jobs, 1)
        scores == BatchScores(tagged, 1, batch_size, backend)
        agg == BulkAggregate(tagged, scores, 1, <<>>, EmptyDict)
    IN [k \in DOMAIN agg.keys |->
           LET data == agg.results[agg.keys[k]] IN
           [articleId |-> agg.keys[k][1], startupId |-> agg.keys[k][2],
            positiveScore |-> data.positive, neutralScore |-> data.neutral,
            negativeScore |-> data.negative, sentiment |-> BestLabel(data)]]


(***************************************************************************)
(* main_pipeline (pipeline/__init__.py) and the database calls it makes    *)
(* (db_utils.py)                                                           *)
(***************************************************************************)
MaxFetched == 2

\* A row of fetch_startups_for_api; its display name is a sequence of
\* characters, as build_engine reads it.
CatalogRow(id, name, sec, kws) ==
    [id |-> id, name |-> name, sectorId |-> sec,
     sectorName |-> SectorNameOf(sec), findingKeywords |-> kws]

\* The contents of "Startups": none; one startup without category name and
\* without a non-empty keyword; one startup; two startups of one category;
\* one startup whose display name is empty.
PipelineCatalogs ==
    {<<>>,
     <<CatalogRow(1, <<"a">>, 2, <<"">>)>>,
     <<CatalogRow(1, <<"a">>, 1, <<>>)>>,
     <<CatalogRow(1, <<"a">>, 1, <<>>), CatalogRow(2, <<"b">>, 1, <<"pay">>)>>,
     <<CatalogRow(1, <<>>, 1, <<>>)>>}

\* str(uuid.uuid4()) of the article inserted for url: an id of its own.
Uuid(url) == "id-" \o url

\* A row of "Articles".
StoredArticle(url, title, content) ==
    [id |-> Uuid(url), title |-> title, content |-> content, url |-> url]

\* The committed contents of the database before a run: the catalog, the
\* articles of earlier runs, and the (articleId, startupId) keys of the
\* sentiment rows of earlier runs.
InitialDbs ==
    [startups : PipelineCatalogs,
     articles : {{}, {StoredArticle("u1", "b", "")}},
     sentiments : {{}, {[articleId |-> Uuid("u0"), startupId |-> 1]}}]

\* The writes of the open transaction.
NoWrites == [articles |-> {}, sentiments |-> {}]

\* What a statement of the transaction reads.
VisibleArticles(d, t) == d.articles \cup t.articles
VisibleSentiments(d, t) == d.sentiments \cup t.sentiments

\* fetch_startup_ids_with_sentiment: SELECT DISTINCT "startupId"
fetch_startup_ids_with_sentiment(d, t) ==
    {r.startupId : r \in VisibleSentiments(d, t)}

\* fetch_existing_urls: the truthy urls of "Articles"
fetch_existing_urls(d, t) ==
    {r.url : r \in {x \in VisibleArticles(d, t) : Truthy(x.url)}}

\* The articles NewsAPI returns: url (one of them empty), title, and an
\* empty content.
FetchedArticles == [url : {"", "u1", "u2"}, title : {"A", "b"}, content : {""}]

\* What fetch_articles_threaded may return for the queries of a run.
FetchedLists == SeqsUpTo(FetchedArticles, MaxFetched)

\* The keys of the dict deduplicate_articles builds from articles[i..], in
\* insertion order (the order in which .items() iterates).
RECURSIVE InsertionOrder(_, _, _)
InsertionOrder(articles, i, seen) ==
    IF i > Len(articles) THEN <<>>
    ELSE LET url == articles[i].url IN
         IF ~Truthy(url) \/ url \in seen
         THEN InsertionOrder(articles, i + 1, seen)
         ELSE <<url>> \o InsertionOrder(articles, i + 1, seen \cup {url})

\* A mutation of NewArticleData: the urls already stored are not left out.
NewArticleDataUnfiltered(fetched, unique, existing_urls) ==
    LET urls == InsertionOrder(fetched, 1, {})
    IN [k \in DOMAIN urls |-> unique[urls[k]]]

\* new_article_data: the deduplicated articles whose url is not stored yet.
NewArticleData(fetched, unique, existing_urls) ==
    LET urls == SelectSeq(InsertionOrder(fetched, 1, {}),
                          LAMBDA u : u \notin existing_urls)
    IN [k \in DOMAIN urls |-> unique[urls[k]]]

\* batch_insert_articles from the i-th article on: INSERT ... ON CONFLICT
\* (url) DO NOTHING; the rows the transaction has written.
RECURSIVE batch_insert_articles(_, _, _, _)
batch_insert_articles(d, t, articles, i) ==
    IF i > Len(articles) THEN t
    ELSE LET a == articles[i]
             conflict == \E r \in VisibleArticles(d, t) : r.url = a.url
             row == StoredArticle(a.url, a.title, a.content)
         IN batch_insert_articles(d,
                IF conflict THEN t ELSE [t EXCEPT !.articles = @ \cup {row}],
                articles, i + 1)

\* get_articles_by_urls: the rows whose url is one of urls.
get_articles_by_urls(d, t, urls) ==
    {r \in VisibleArticles(d, t) : r.url \in urls}

\* The orders in which a SELECT without ORDER BY may return the rows of S.
RowOrders(S) ==
    {s \in [1..Cardinality(S) -> S] : \A i, j \in DOMAIN s : i /= j => s[i] /= s[j]}

\* batch_insert_article_sentiments from the i-th record on: INSERT ... ON
\* CONFLICT ("articleId", "startupId") DO NOTHING.
RECURSIVE batch_insert_article_sentiments(_, _, _, _)
batch_insert_article_sentiments(d, t, records, i) ==
    IF i > Len(records) THEN t
    ELSE LET key == [articleId |-> records[i].articleId,
                     startupId |-> records[i].startupId]
         IN batch_insert_article_sentiments(d,
                [t EXCEPT !.sentiments = @ \cup ({key} \ VisibleSentiments(d, t))],
                records, i + 1)

\* A mutation of DbCommit: only the sentiment rows are made durable.
DbCommitSentimentsOnly(d, t) ==
    [d EXCEPT !.sentiments = @ \cup t.sentiments]

\* conn.commit(): the committed contents afterwards.
DbCommit(d, t) ==
    [d EXCEPT !.articles = @ \cup t.articles,
              !.sentiments = @ \cup t.sentiments]

\* A mutation of DbRollback: the writes of the transaction are kept.
DbRollbackKeeps(d, t) == DbCommit(d, t)

\* conn.rollback(), and conn.close() with an open transaction: the committed
\* contents afterwards.
DbRollback(d, t) == d

\* The characters of a title or content of at most one character.
CharsOf(s) == IF s = "" THEN <<>> ELSE <<s>>

\* text_to_search = f"{article_row['title']}. {article_row['content']}"
TextToSearch(row) == CharsOf(row.title) \o <<".", " ">> \o CharsOf(row.content)

\* self.startup_map.get(startup_id): None is the empty sequence, an info dict
\* the sequence of it.
get_startup_info(map, startup_id) ==
    IF startup_id \in DOMAIN map THEN <<map[startup_id]>> ELSE <<>>

\* list(found_startup_ids): the ids in the set's iteration order, taken to
\* be ascending.
RECURSIVE IdsInOrder(_)
IdsInOrder(ids) ==
    IF ids = {} THEN <<>>
    ELSE LET least == CHOOSE i \in ids : \A j \in ids : i <= j
         IN <<least>> \o IdsInOrder(ids \ {least})

\* startups_to_analyze: the info of every found id that has one.
StartupsToAnalyze(found_ids, map) ==
    LET ids == SelectSeq(IdsInOrder(found_ids),
                         LAMBDA sid : get_startup_info(map, sid) /= <<>>)
    IN [k \in DOMAIN ids |-> get_startup_info(map, ids[k])[1]]

\* The scoring backend of a run: every pair scores the same.
PipelineBackend == [p \in {<<"a">>, <<"b">>} \X Range(Labels) |-> 1]

\* The calls of main_pipeline that can raise into it, and whether the
\* connection is lost with the failure (conn.rollback() then raises too).
\* fetch_articles_threaded catches what its workers raise and is not one.
FaultStages == {"fetch_startups", "fetch_ids", "fetch_urls", "insert_articles",
                "get_articles", "insert_sentiments", "commit"}
NoFault == [stage |-> "none", lost |-> FALSE]
Faults == {NoFault, [stage |-> "connect", lost |-> FALSE],
           [stage |-> "score", lost |-> FALSE]}
          \cup [stage : FaultStages, lost : BOOLEAN]

(***************************************************************************)
(* fetch_articles_threaded and fetch_sector_articles (api_utils.py)        *)
(***************************************************************************)
THREAD_COUNT == 5

\* The most queries of a call: one more than the pool has workers.
MaxQueries == THREAD_COUNT + 1

\* What the fetch_sector_articles call of the q-th query returns when it
\* returns: the same article may come back for several queries.
TaskArticles(q) ==
    CASE q % 3 = 1 -> <<"x">>
      [] q % 3 = 2 -> <<"x", "y">>
      [] OTHER -> <<>>

\* What a fetch_sector_articles call does: it returns its list, or raises.
TaskOutcomes == {"returns", "raises"}

\* The most calls of one run of the pool that raise.
MaxRaising == 1

\* What the calls of n queries do.
TaskOutcomeLists(n) ==
    {f \in [1..n -> TaskOutcomes] :
        Cardinality({q \in 1..n : f[q] = "raises"}) <= MaxRaising}

\* The futures in state s.
InState(fs, s) == {q \in DOMAIN fs : fs[q].state = s}

\* The work queue is first in, first out: the work item a worker gets next.
NextQueued(fs) ==
    CHOOSE q \in InState(fs, "queued") : \A r \in InState(fs, "queued") : q <= r

\* A new future, and the work item put on the queue for it.
NewFuture == [state |-> "queued", yielded |-> FALSE]

\* A mutation of Extend: the list is replaced by the articles of the task.
ExtendReplaces(list, articles) == articles

\* all_articles.extend(articles)
Extend(list, articles) == list \o articles

\* ThreadPoolExecutor._adjust_thread_count: a thread is started while there
\* are fewer than max_workers of them.
MaySpawn(threads) == threads < THREAD_COUNT

API_PAGE_SIZE == 100

\* The most pages the server is asked for.
MaxPages == 3

\* What the request for a page gets: session.get or raise_for_status raises
\* a RequestException; or the body is a JSON object without "articles"; or it
\* holds a list of `count` articles.
PageResponses ==
    {[kind |-> "fails", count |-> 0], [kind |-> "missing", count |-> 0]}
        \cup [kind : {"ok"}, count : {0, 1, API_PAGE_SIZE - 1, API_PAGE_SIZE}]

\* data["articles"] of page p: its i-th article is <<p, i>>.
PageArticles(response, p) ==
    IF response.kind = "ok" THEN [i \in 1..response.count |-> <<p, i>>]
    ELSE <<>>

\* The loop is left after this response: the break of line 153, of line 157
\* or of line 164.
Breaks(response) ==
    \/ response.kind = "fails"
    \/ response.kind = "missing" \/ PageArticles(response, 1) = <<>>
    \/ Len(PageArticles(response, 1)) < API_PAGE_SIZE

\* A mutation of NextPage: a page is skipped.
NextPageSkips(p) == p + 2

\* page += 1
NextPage(p) == p + 1
(***************************************************************************)
(* The state machine                                                       *)
(***************************************************************************)
IdleDedup ==
    /\ all_articles = <<>>
    /\ unique_articles = EmptyDict
    /\ dedup_pc = "ready"

IdleQuery ==
    /\ all_startups_data = <<>>
    /\ existing_startup_ids = {}
    /\ now = [date |-> ThirtyDays, hour |-> 0]
    /\ hashseed = CHOOSE f \in HashSeeds : TRUE
    /\ query_results = <<>>

\* StartupSearch(): __init__
IdleMatcher ==
    /\ automaton = NoAutomaton
    /\ startup_map = EmptyDict
    /\ builds = 0
    /\ built_from = <<>>
    /\ last_find = [called |-> FALSE]
    /\ finds = [t \in Threads |-> NotFinding]

IdleScorer ==
    /\ job_article = CHOOSE row \in ArticleRows : TRUE
    /\ job_startups = <<>>
    /\ scoring = [called |-> FALSE]

IdleBulk ==
    /\ articles_to_process = <<>>
    /\ score_backend = CHOOSE b \in Backends : TRUE
    /\ bulk_runs = <<>>

\* Neither fetch_articles_threaded nor fetch_sector_articles is running.
IdleFetch ==
    /\ task_outcome = <<>>
    /\ futures = <<>>
    /\ num_threads = 0
    /\ idle_semaphore = 0
    /\ peak_running = 0
    /\ threaded_articles = <<>>
    /\ fetch_pc = "idle"
    /\ server = <<>>
    /\ page = 1
    /\ requested = <<>>
    /\ sector_articles = <<>>
    /\ pages_pc = "idle"

\* main_pipeline is not running.
IdlePipeline ==
    /\ pc = "idle"
    /\ conn = "None"
    /\ fault = NoFault
    /\ db = CHOOSE d \in InitialDbs : TRUE
    /\ db_start = db
    /\ tx = NoWrites
    /\ sector_queries = <<>>
    /\ new_article_data = <<>>
    /\ articles_from_db = <<>>
    /\ match_at = 1
    /\ match_errors = 0
    /\ all_sentiment_records = <<>>
    /\ events = <<>>
    /\ failure = "none"
    /\ result = "running"
    /\ report = "none"

InitDedup ==
    /\ comp = "dedup"
    /\ all_articles \in SeqsUpTo(RawArticles, MaxArticles)
    /\ unique_articles = EmptyDict
    /\ dedup_pc = "ready"
    /\ IdleQuery
    /\ IdleMatcher
    /\ IdleScorer
    /\ IdleBulk
    /\ IdlePipeline
    /\ IdleFetch

\* unique_fetched_articles = api_utils.deduplicate_articles(fetched_articles_list)
Deduplicate ==
    /\ comp = "dedup"
    /\ dedup_pc = "ready"
    /\ unique_articles' = deduplicate_articles(all_articles)
    /\ dedup_pc' = "done"
    /\ UNCHANGED <<comp, all_articles, varsQuery, varsMatcher, varsScorer,
                   varsBulk,
                   varsPipeline, varsFetch>>

NextDedup == Deduplicate

SpecDedup == InitDedup /\ [][NextDedup]_vars

InitQuery ==
    /\ comp = "query"
    /\ all_startups_data \in Catalogs
    /\ existing_startup_ids \in SUBSET StartupIds
    /\ now = [date |-> ThirtyDays, hour |-> 0]
    /\ hashseed \in HashSeeds
    /\ query_results = <<>>
    /\ IdleDedup
    /\ IdleMatcher
    /\ IdleScorer
    /\ IdleBulk
    /\ IdlePipeline
    /\ IdleFetch

\* A call of build_sector_queries(all_startups_data, existing_startup_ids):
\* the entry of query_results keeps the datetime.now() the call read beside
\* the list it returned.
BuildQueries ==
    /\ comp = "query"
    /\ Len(query_results) < 2
    /\ query_results' = Append(query_results,
           [today |-> now,
            queries |-> build_sector_queries(all_startups_data,
                            existing_startup_ids, now, hashseed)])
    /\ UNCHANGED <<comp, all_startups_data, existing_startup_ids, now,
                   hashseed, varsDedup, varsMatcher, varsScorer, varsBulk,
                   varsPipeline, varsFetch>>

\* Time passes.
Tick ==
    /\ comp = "query"
    /\ \E t \in Instants : Later(now, t) /\ now' = t
    /\ UNCHANGED <<comp, all_startups_data, existing_startup_ids, hashseed,
                   query_results, varsDedup, varsMatcher, varsScorer,
                   varsBulk,
                   varsPipeline, varsFetch>>

NextQuery == BuildQueries \/ Tick

SpecQuery == InitQuery /\ [][NextQuery]_vars

InitMatcher ==
    /\ comp = "matcher"
    /\ IdleMatcher
    /\ IdleScorer
    /\ IdleBulk
    /\ IdleDedup
    /\ IdleQuery
    /\ IdlePipeline
    /\ IdleFetch

\* search_engine.build_engine(startups)
BuildEngine ==
    /\ comp = "matcher"
    /\ builds < MaxBuilds
    /\ \E startups \in EntityLists :
           LET built == build_engine(startups, startup_map)
           IN /\ automaton' = built.automaton
              /\ startup_map' = built.startup_map
              /\ builds' = builds + 1
              /\ built_from' = startups
    /\ UNCHANGED <<comp, last_find, finds, varsDedup, varsQuery, varsScorer,
                   varsBulk,
                   varsPipeline, varsFetch>>

\* search_engine.find_startups_in_text(text); last_find.build is the number of
\* build_engine calls that came before it.
FindStartups ==
    /\ comp = "matcher"
    /\ \E text \in Texts :
           LET found == find_startups_in_text(automaton, text)
           IN last_find' = [called |-> TRUE, build |-> builds, text |-> text,
                            outcome |-> found.outcome, found_ids |-> found.found_ids]
    /\ UNCHANGED <<comp, automaton, startup_map, builds, built_from, finds,
                   varsDedup, varsQuery, varsScorer, varsBulk,
                   varsPipeline, varsFetch>>

NextMatcher == BuildEngine \/ FindStartups

SpecMatcher == InitMatcher /\ [][NextMatcher]_vars

InitLookup ==
    /\ comp = "lookup"
    /\ IdleMatcher
    /\ IdleScorer
    /\ IdleBulk
    /\ IdleDedup
    /\ IdleQuery
    /\ IdlePipeline
    /\ IdleFetch

\* search_engine.build_engine(startups), once, before any thread searches.
BuildOnce ==
    /\ comp = "lookup"
    /\ builds = 0
    /\ \E startups \in LookupCatalogs :
           LET built == build_engine(startups, startup_map)
           IN /\ automaton' = built.automaton
              /\ startup_map' = built.startup_map
              /\ builds' = 1
              /\ built_from' = startups
    /\ UNCHANGED <<comp, last_find, finds, varsDedup, varsQuery, varsScorer,
                   varsBulk, varsPipeline, varsFetch>>

\* Another thread is inside the loop of find_startups_in_text (kept with
\* the call that begins, to tell the calls that overlap another).
OthersInLoop(t) == \E u \in Threads \ {t} : finds[u].pc = "iter"

\* Thread t enters find_startups_in_text(text): the test of self.automaton,
\* text.lower() and found_ids = set()  (lines 53-58)
FindBegin(t) ==
    /\ comp = "lookup"
    /\ builds = 1
    /\ finds[t].pc = "idle"
    /\ \E text \in LookupTexts :
           finds' = [finds EXCEPT ![t] =
               IF automaton.kind = "None"
               THEN [pc |-> "done", text |-> text, text_lower |-> <<>>, at |-> 0,
                     found_ids |-> {}, outcome |-> "returned",
                     overlaps |-> OthersInLoop(t)]
               ELSE [pc |-> "iter", text |-> text, text_lower |-> Lower(text),
                     at |-> 0, found_ids |-> FreshFoundIds,
                     outcome |-> "running", overlaps |-> OthersInLoop(t)]]
    /\ UNCHANGED <<comp, automaton, startup_map, builds, built_from, last_find,
                   varsDedup, varsQuery, varsScorer, varsBulk, varsPipeline, varsFetch>>

\* One pass of thread t's loop over self.automaton.iter(text_lower): iter
\* raises on an automaton that was never made; otherwise the ids of the keys
\* ending at the next character are added to found_ids  (lines 60-61)
FindIterate(t) ==
    /\ comp = "lookup"
    /\ finds[t].pc = "iter"
    /\ automaton.kind /= "AHOCORASICK" \/ finds[t].at < Len(finds[t].text_lower)
    /\ finds' = [finds EXCEPT ![t] =
           IF automaton.kind /= "AHOCORASICK"
           THEN [@ EXCEPT !.pc = "done", !.outcome = "raised"]
           ELSE [@ EXCEPT !.at = @ + 1,
                          !.found_ids = @ \cup ValuesEndingAt(automaton,
                                            finds[t].text_lower, finds[t].at + 1)]]
    /\ UNCHANGED <<comp, automaton, startup_map, builds, built_from, last_find,
                   varsDedup, varsQuery, varsScorer, varsBulk, varsPipeline, varsFetch>>

\* return found_ids  (line 63)
FindReturn(t) ==
    /\ comp = "lookup"
    /\ finds[t].pc = "iter"
    /\ automaton.kind = "AHOCORASICK"
    /\ finds[t].at = Len(finds[t].text_lower)
    /\ finds' = [finds EXCEPT ![t] = [@ EXCEPT !.pc = "done",
                                                !.outcome = "returned"]]
    /\ UNCHANGED <<comp, automaton, startup_map, builds, built_from, last_find,
                   varsDedup, varsQuery, varsScorer, varsBulk, varsPipeline, varsFetch>>

NextLookup ==
    \/ BuildOnce
    \/ \E t \in Threads : FindBegin(t) \/ FindIterate(t) \/ FindReturn(t)

SpecLookup == InitLookup /\ [][NextLookup]_vars

InitScorer ==
    /\ comp = "scorer"
    /\ job_article \in ArticleRows
    /\ job_startups \in JobStartupLists
    /\ scoring = [called |-> FALSE]
    /\ IdleDedup
    /\ IdleQuery
    /\ IdleMatcher
    /\ IdleBulk
    /\ IdlePipeline
    /\ IdleFetch

\* sentiment_records = analyze_article_sentiments(article, startups); scoring
\* keeps, beside what the call returned, the pairs it handed to the backend
\* and what the backend did with them ("unused": the backend was not called).
AnalyzeArticle ==
    /\ comp = "scorer"
    /\ ~scoring.called
    /\ \E backend \in BackendOutcomes(3 * Len(job_startups)) :
           LET ret == analyze_article_sentiments(job_article, job_startups, backend)
           IN scoring' =
                  [called |-> TRUE,
                   pairs |-> Pairs(ArticleText(job_article), job_startups),
                   mapping |-> Mapping(job_startups),
                   backend |-> IF job_startups = <<>> THEN "unused"
                               ELSE IF backend.raised THEN "raised" ELSE "ok",
                   scores |-> backend.scores,
                   outcome |-> ret.outcome,
                   db_records |-> ret.db_records]
    /\ UNCHANGED <<comp, job_article, job_startups, varsDedup, varsQuery,
                   varsMatcher, varsBulk,
                   varsPipeline, varsFetch>>

NextScorer == AnalyzeArticle

SpecScorer == InitScorer /\ [][NextScorer]_vars

InitBulk ==
    /\ comp = "bulk"
    /\ articles_to_process \in JobLists
    /\ score_backend \in Backends
    /\ bulk_runs = <<>>
    /\ IdleDedup
    /\ IdleQuery
    /\ IdleMatcher
    /\ IdleScorer
    /\ IdlePipeline
    /\ IdleFetch

\* all_sentiment_records =
\*     sentiment_utils.analyze_all_articles_in_bulk(articles_to_process),
\* run with some mini-batch size; at most two runs on the same jobs.
AnalyzeInBulk ==
    /\ comp = "bulk"
    /\ Len(bulk_runs) < 2
    /\ \E batch_size \in BatchSizes :
           bulk_runs' = Append(bulk_runs,
               [batch_size |-> batch_size,
                records |-> analyze_all_articles_in_bulk(articles_to_process,
                                batch_size, score_backend)])
    /\ UNCHANGED <<comp, articles_to_process, score_backend, varsDedup,
                   varsQuery, varsMatcher, varsScorer,
                   varsPipeline, varsFetch>>

NextBulk == AnalyzeInBulk

SpecBulk == InitBulk /\ [][NextBulk]_vars

(***************************************************************************)
(* main_pipeline, step by step, and main.py                                *)
(***************************************************************************)
InitPipeline ==
    /\ comp = "pipeline"
    /\ pc = "connect"
    /\ conn = "None"
    /\ fault \in Faults
    /\ db \in InitialDbs
    /\ db_start = db
    /\ tx = NoWrites
    /\ sector_queries = <<>>
    /\ new_article_data = <<>>
    /\ articles_from_db = <<>>
    /\ match_at = 1
    /\ match_errors = 0
    /\ all_sentiment_records = <<>>
    /\ events = <<>>
    /\ failure = "none"
    /\ result = "running"
    /\ report = "none"
    /\ IdleDedup
    /\ IdleQuery
    /\ IdleMatcher
    /\ IdleScorer
    /\ articles_to_process = <<>>
    /\ score_backend = PipelineBackend
    /\ bulk_runs = <<>>
    /\ IdleFetch

\* The call `stage` raises in this run.
Fails(stage) == fault.stage = stage

\* The call `stage` raises: control goes to the except clause of line 133.
Raise(stage) ==
    /\ failure' = stage
    /\ conn' = IF fault.lost THEN "lost" ELSE conn
    /\ pc' = "except"

\* A mutation of HasConnection: a connection that is lost counts as none.
HasConnectionOpenOnly(c) == c = "open"

\* `if conn:` of the except and the finally clause: conn is not None (a
\* psycopg2 connection is truthy whatever its state).
HasConnection(c) == c /= "None"

\* A mutation of MatchingDone: the loop ends after the first article.
MatchingDoneEarly(at, rows) == at > 1 \/ rows = <<>>

\* The for loop of lines 86-111 has gone through articles_from_db.
MatchingDone(at, rows) == at > Len(rows)

\* conn = db_utils.get_connection()  (lines 23-25)
Connect ==
    /\ comp = "pipeline"
    /\ pc = "connect"
    /\ events' = Append(events, "connect")
    /\ IF Fails("connect")
       THEN Raise("connect")
       ELSE /\ conn' = "open"
            /\ pc' = "fetch_initial"
            /\ UNCHANGED failure
    /\ UNCHANGED <<comp, fault, db, db_start, tx, sector_queries,
                   new_article_data, articles_from_db, match_at, match_errors,
                   all_sentiment_records, result, report, varsDedup,
                   varsQuery, varsMatcher, varsScorer, varsBulk, varsFetch>>

\* fetch_startups_for_api, fetch_startup_ids_with_sentiment and the return of
\* an empty catalog  (lines 27-32)
FetchInitialData ==
    /\ comp = "pipeline"
    /\ pc = "fetch_initial"
    /\ events' = Append(events, "fetch_initial")
    /\ IF Fails("fetch_startups") \/ Fails("fetch_ids")
       THEN /\ Raise(fault.stage)
            /\ UNCHANGED <<all_startups_data, existing_startup_ids>>
       ELSE /\ all_startups_data' = db.startups
            /\ existing_startup_ids' = fetch_startup_ids_with_sentiment(db, tx)
            /\ pc' = IF db.startups = <<>> THEN "finally" ELSE "build_queries"
            /\ UNCHANGED <<failure, conn>>
    /\ UNCHANGED <<comp, fault, db, db_start, tx, sector_queries,
                   new_article_data, articles_from_db, match_at, match_errors,
                   all_sentiment_records, result, report, now, hashseed,
                   query_results, varsDedup, varsMatcher, varsScorer, varsBulk, varsFetch>>

\* sector_queries = api_utils.build_sector_queries(...) and the return when
\* there is none  (lines 37-44)
BuildSectorQueries ==
    /\ comp = "pipeline"
    /\ pc = "build_queries"
    /\ events' = Append(events, "build_queries")
    /\ sector_queries' = build_sector_queries(all_startups_data,
                             existing_startup_ids, now, hashseed)
    /\ pc' = IF sector_queries' = <<>> THEN "finally" ELSE "fetch"
    /\ UNCHANGED <<comp, conn, fault, db, db_start, tx, new_article_data,
                   articles_from_db, match_at, match_errors,
                   all_sentiment_records, failure, result, report, varsDedup,
                   varsQuery, varsMatcher, varsScorer, varsBulk, varsFetch>>

\* fetched_articles_list = api_utils.fetch_articles_threaded(sector_queries)
\* (line 49)
FetchArticles ==
    /\ comp = "pipeline"
    /\ pc = "fetch"
    /\ events' = Append(events, "fetch")
    /\ \E fetched \in FetchedLists : all_articles' = fetched
    /\ pc' = "dedup"
    /\ UNCHANGED <<comp, conn, fault, db, db_start, tx, sector_queries,
                   new_article_data, articles_from_db, match_at, match_errors,
                   all_sentiment_records, failure, result, report,
                   unique_articles, dedup_pc, varsQuery, varsMatcher,
                   varsScorer, varsBulk, varsFetch>>

\* deduplicate_articles, fetch_existing_urls, new_article_data and the return
\* when there is no new article  (lines 50-61)
DeduplicateAndFilter ==
    /\ comp = "pipeline"
    /\ pc = "dedup"
    /\ events' = Append(events, "dedup")
    /\ unique_articles' = deduplicate_articles(all_articles)
    /\ IF Fails("fetch_urls")
       THEN /\ Raise("fetch_urls")
            /\ UNCHANGED new_article_data
       ELSE /\ new_article_data' = NewArticleData(all_articles, unique_articles',
                                       fetch_existing_urls(db, tx))
            /\ pc' = IF new_article_data' = <<>> THEN "finally"
                     ELSE "insert_articles"
            /\ UNCHANGED <<failure, conn>>
    /\ UNCHANGED <<comp, fault, db, db_start, tx, sector_queries,
                   articles_from_db, match_at, match_errors,
                   all_sentiment_records, result, report, all_articles,
                   dedup_pc, varsQuery, varsMatcher, varsScorer, varsBulk, varsFetch>>

\* batch_insert_articles and get_articles_by_urls  (lines 68-71)
InsertNewArticles ==
    /\ comp = "pipeline"
    /\ pc = "insert_articles"
    /\ events' = Append(events, "insert_articles")
    /\ IF Fails("insert_articles")
       THEN /\ Raise("insert_articles")
            /\ UNCHANGED <<tx, articles_from_db>>
       ELSE /\ tx' = batch_insert_articles(db, tx, new_article_data, 1)
            /\ IF Fails("get_articles")
               THEN /\ Raise("get_articles")
                    /\ UNCHANGED articles_from_db
               ELSE /\ \E rows \in RowOrders(get_articles_by_urls(db, tx',
                                      Range([i \in DOMAIN new_article_data |->
                                                new_article_data[i].url])) ) :
                           articles_from_db' = rows
                    /\ pc' = "build_engine"
                    /\ UNCHANGED <<failure, conn>>
    /\ UNCHANGED <<comp, fault, db, db_start, sector_queries, new_article_data,
                   match_at, match_errors, all_sentiment_records, result,
                   report, varsDedup, varsQuery, varsMatcher, varsScorer,
                   varsBulk, varsFetch>>

\* search_engine = StartupSearch(); search_engine.build_engine(all_startups_data)
\* (lines 76-77)
BuildSearchEngine ==
    /\ comp = "pipeline"
    /\ pc = "build_engine"
    /\ events' = Append(events, "build_engine")
    /\ LET built == build_engine(all_startups_data, EmptyDict)
       IN /\ automaton' = built.automaton
          /\ startup_map' = built.startup_map
    /\ builds' = builds + 1
    /\ built_from' = all_startups_data
    /\ pc' = "match"
    /\ UNCHANGED <<comp, conn, fault, db, db_start, tx, sector_queries,
                   new_article_data, articles_from_db, match_at, match_errors,
                   all_sentiment_records, failure, result, report, last_find,
                   finds, varsDedup, varsQuery, varsScorer, varsBulk, varsFetch>>

\* One pass of the loop over articles_from_db.items(): what
\* find_startups_in_text raises is logged and the loop goes on
\* (lines 86-111)
MatchArticle ==
    /\ comp = "pipeline"
    /\ pc = "match"
    /\ ~MatchingDone(match_at, articles_from_db)
    /\ events' = Append(events, "match")
    /\ LET article_row == articles_from_db[match_at]
           found == find_startups_in_text(automaton, TextToSearch(article_row))
           startups_to_analyze == StartupsToAnalyze(found.found_ids, startup_map)
       IN IF found.outcome = "raised"
          THEN /\ match_errors' = match_errors + 1
               /\ UNCHANGED articles_to_process
          ELSE /\ articles_to_process' =
                      IF found.found_ids = {} \/ startups_to_analyze = <<>>
                      THEN articles_to_process
                      ELSE Append(articles_to_process,
                               [article |-> article_row,
                                startups_to_analyze |-> startups_to_analyze])
               /\ UNCHANGED match_errors
    /\ match_at' = match_at + 1
    /\ UNCHANGED <<comp, pc, conn, fault, db, db_start, tx, sector_queries,
                   new_article_data, articles_from_db, all_sentiment_records,
                   failure, result, report, score_backend, bulk_runs,
                   varsDedup, varsQuery, varsMatcher, varsScorer, varsFetch>>

\* The return when no article mentions a startup, and
\* sentiment_utils.analyze_all_articles_in_bulk(articles_to_process)
\* (lines 114-118)
AnalyzeSentiments ==
    /\ comp = "pipeline"
    /\ pc = "match"
    /\ MatchingDone(match_at, articles_from_db)
    /\ IF articles_to_process = <<>>
       THEN /\ pc' = "finally"
            /\ UNCHANGED <<events, all_sentiment_records, failure, conn>>
       ELSE /\ events' = Append(events, "score")
            /\ IF Fails("score")
               THEN /\ Raise("score")
                    /\ UNCHANGED all_sentiment_records
               ELSE /\ all_sentiment_records' =
                           analyze_all_articles_in_bulk(articles_to_process,
                               MODEL_BATCH_SIZE, score_backend)
                    /\ pc' = "insert_sentiments"
                    /\ UNCHANGED <<failure, conn>>
    /\ UNCHANGED <<comp, fault, db, db_start, tx, sector_queries,
                   new_article_data, articles_from_db, match_at, match_errors,
                   result, report, varsDedup, varsQuery, varsMatcher,
                   varsScorer, varsBulk, varsFetch>>

\* batch_insert_article_sentiments, called when there are records
\* (lines 123-127)
InsertSentiments ==
    /\ comp = "pipeline"
    /\ pc = "insert_sentiments"
    /\ IF all_sentiment_records = <<>>
       THEN /\ pc' = "commit"
            /\ UNCHANGED <<events, tx, failure, conn>>
       ELSE /\ events' = Append(events, "insert_sentiments")
            /\ IF Fails("insert_sentiments")
               THEN /\ Raise("insert_sentiments")
                    /\ UNCHANGED tx
               ELSE /\ tx' = batch_insert_article_sentiments(db, tx,
                                 all_sentiment_records, 1)
                    /\ pc' = "commit"
                    /\ UNCHANGED <<failure, conn>>
    /\ UNCHANGED <<comp, fault, db, db_start, sector_queries, new_article_data,
                   articles_from_db, match_at, match_errors,
                   all_sentiment_records, result, report, varsDedup,
                   varsQuery, varsMatcher, varsScorer, varsBulk, varsFetch>>

\* conn.commit()  (line 130)
Commit ==
    /\ comp = "pipeline"
    /\ pc = "commit"
    /\ events' = Append(events, "commit")
    /\ IF Fails("commit")
       THEN /\ Raise("commit")
            /\ UNCHANGED <<db, tx>>
       ELSE /\ db' = DbCommit(db, tx)
            /\ tx' = NoWrites
            /\ pc' = "finally"
            /\ UNCHANGED <<failure, conn>>
    /\ UNCHANGED <<comp, fault, db_start, sector_queries, new_article_data,
                   articles_from_db, match_at, match_errors,
                   all_sentiment_records, result, report, varsDedup,
                   varsQuery, varsMatcher, varsScorer, varsBulk, varsFetch>>

\* except Exception: the failure is logged, and the transaction is rolled
\* back if there is a connection; conn.rollback() raises on a connection
\* that is lost, and that exception leaves main_pipeline  (lines 133-137)
HandleException ==
    /\ comp = "pipeline"
    /\ pc = "except"
    /\ IF ~HasConnection(conn)
       THEN UNCHANGED <<events, db, tx, result>>
       ELSE /\ events' = Append(events, "rollback")
            /\ db' = DbRollback(db, tx)
            /\ tx' = NoWrites
            /\ result' = IF conn = "lost" THEN "raised" ELSE result
    /\ pc' = "finally"
    /\ UNCHANGED <<comp, conn, fault, db_start, sector_queries,
                   new_article_data, articles_from_db, match_at, match_errors,
                   all_sentiment_records, failure, report, varsDedup,
                   varsQuery, varsMatcher, varsScorer, varsBulk, varsFetch>>

\* finally: conn.close(), which discards a transaction left open; then
\* main_pipeline returns, or the exception of the except clause leaves it
\* (lines 138-141)
CloseConnection ==
    /\ comp = "pipeline"
    /\ pc = "finally"
    /\ IF ~HasConnection(conn)
       THEN UNCHANGED <<events, conn, db, tx>>
       ELSE /\ events' = Append(events, "close")
            /\ conn' = "closed"
            /\ db' = DbRollback(db, tx)
            /\ tx' = NoWrites
    /\ result' = IF result = "raised" THEN "raised" ELSE "returned"
    /\ pc' = "done"
    /\ UNCHANGED <<comp, fault, db_start, sector_queries, new_article_data,
                   articles_from_db, match_at, match_errors,
                   all_sentiment_records, failure, report, varsDedup,
                   varsQuery, varsMatcher, varsScorer, varsBulk, varsFetch>>

\* main.py: "PIPELINE RUN COMPLETED SUCCESSFULLY" after main_pipeline()
\* returns, sys.exit(1) after it raises  (main.py lines 6-20)
MainReport ==
    /\ comp = "pipeline"
    /\ pc = "done"
    /\ report = "none"
    /\ report' = IF result = "raised" THEN "exit1" ELSE "completed"
    /\ UNCHANGED <<comp, pc, conn, fault, db, db_start, tx, sector_queries,
                   new_article_data, articles_from_db, match_at, match_errors,
                   all_sentiment_records, events, failure, result, varsDedup,
                   varsQuery, varsMatcher, varsScorer, varsBulk, varsFetch>>

NextPipeline ==
    \/ Connect
    \/ FetchInitialData
    \/ BuildSectorQueries
    \/ FetchArticles
    \/ DeduplicateAndFilter
    \/ InsertNewArticles
    \/ BuildSearchEngine
    \/ MatchArticle
    \/ AnalyzeSentiments
    \/ InsertSentiments
    \/ Commit
    \/ HandleException
    \/ CloseConnection
    \/ MainReport

SpecPipeline == InitPipeline /\ [][NextPipeline]_vars


(***************************************************************************)
(* fetch_articles_threaded: the main thread and the workers of the pool    *)
(***************************************************************************)
InitPool ==
    /\ comp = "pool"
    /\ \E n \in 0..MaxQueries : task_outcome \in TaskOutcomeLists(n)
    /\ futures = <<>>
    /\ num_threads = 0
    /\ idle_semaphore = 0
    /\ peak_running = 0
    /\ threaded_articles = <<>>
    /\ fetch_pc = "submit"
    /\ server = <<>>
    /\ page = 1
    /\ requested = <<>>
    /\ sector_articles = <<>>
    /\ pages_pc = "idle"
    /\ IdleDedup
    /\ IdleQuery
    /\ IdleMatcher
    /\ IdleScorer
    /\ IdleBulk
    /\ IdlePipeline

\* executor.submit(fetch_sector_articles, query, from_date, to_date) for the
\* next query: the work item is queued, and a thread is started for it
\* unless a worker has signalled that it is idle or the pool is full
\* (lines 183-186)
Submit ==
    /\ comp = "pool"
    /\ fetch_pc = "submit"
    /\ Len(futures) < Len(task_outcome)
    /\ futures' = Append(futures, NewFuture)
    /\ IF idle_semaphore > 0
       THEN /\ idle_semaphore' = idle_semaphore - 1
            /\ UNCHANGED num_threads
       ELSE /\ num_threads' = IF MaySpawn(num_threads) THEN num_threads + 1
                              ELSE num_threads
            /\ UNCHANGED idle_semaphore
    /\ UNCHANGED <<comp, task_outcome, peak_running, threaded_articles,
                   fetch_pc, varsPages, varsDedup, varsQuery, varsMatcher,
                   varsScorer, varsBulk, varsPipeline>>

\* The dict of futures is complete: as_completed(futures) begins (line 188)
AsCompleted ==
    /\ comp = "pool"
    /\ fetch_pc = "submit"
    /\ Len(futures) = Len(task_outcome)
    /\ fetch_pc' = "collect"
    /\ UNCHANGED <<comp, task_outcome, futures, num_threads, idle_semaphore,
                   peak_running, threaded_articles, varsPages, varsDedup,
                   varsQuery, varsMatcher, varsScorer, varsBulk, varsPipeline>>

\* A worker that has no work item takes the next one from the queue and
\* starts fetch_sector_articles.
WorkerStart ==
    /\ comp = "pool"
    /\ InState(futures, "queued") /= {}
    /\ Cardinality(InState(futures, "running")) < num_threads
    /\ futures' = [futures EXCEPT ![NextQueued(futures)].state = "running"]
    /\ peak_running' =
           IF Cardinality(InState(futures', "running")) > peak_running
           THEN Cardinality(InState(futures', "running")) ELSE peak_running
    /\ UNCHANGED <<comp, task_outcome, num_threads, idle_semaphore,
                   threaded_articles, fetch_pc, varsPages, varsDedup,
                   varsQuery, varsMatcher, varsScorer, varsBulk, varsPipeline>>

\* fetch_sector_articles returns or raises in the worker of future q: the
\* future holds the result or the exception, and the worker signals that it
\* is idle.
WorkerFinish(q) ==
    /\ comp = "pool"
    /\ q \in InState(futures, "running")
    /\ futures' = [futures EXCEPT ![q].state =
                       IF task_outcome[q] = "returns" THEN "returned"
                       ELSE "raised"]
    /\ idle_semaphore' = idle_semaphore + 1
    /\ UNCHANGED <<comp, task_outcome, num_threads, peak_running,
                   threaded_articles, fetch_pc, varsPages, varsDedup,
                   varsQuery, varsMatcher, varsScorer, varsBulk, varsPipeline>>

\* One pass of the loop over as_completed(futures): a finished future that
\* was not yielded yet is yielded; future.result() returns the articles,
\* which are added to all_articles, or raises, which is logged
\* (lines 188-195)
Collect(q) ==
    /\ comp = "pool"
    /\ fetch_pc = "collect"
    /\ q \in InState(futures, "returned") \cup InState(futures, "raised")
    /\ ~futures[q].yielded
    /\ futures' = [futures EXCEPT ![q].yielded = TRUE]
    /\ threaded_articles' =
           IF futures[q].state = "returned"
           THEN Extend(threaded_articles, TaskArticles(q))
           ELSE threaded_articles
    /\ UNCHANGED <<comp, task_outcome, num_threads, idle_semaphore,
                   peak_running, fetch_pc, varsPages, varsDedup, varsQuery,
                   varsMatcher, varsScorer, varsBulk, varsPipeline>>

\* as_completed has yielded every future; the with block is left (every
\* work item is done by then) and all_articles is returned (lines 197-198)
ReturnAllArticles ==
    /\ comp = "pool"
    /\ fetch_pc = "collect"
    /\ \A q \in DOMAIN futures : futures[q].yielded
    /\ fetch_pc' = "returned"
    /\ UNCHANGED <<comp, task_outcome, futures, num_threads, idle_semaphore,
                   peak_running, threaded_articles, varsPages, varsDedup,
                   varsQuery, varsMatcher, varsScorer, varsBulk, varsPipeline>>

NextPool ==
    \/ Submit
    \/ AsCompleted
    \/ WorkerStart
    \/ \E q \in 1..MaxQueries : WorkerFinish(q)
    \/ \E q \in 1..MaxQueries : Collect(q)
    \/ ReturnAllArticles

SpecPool == InitPool /\ [][NextPool]_vars

(***************************************************************************)
(* fetch_sector_articles: the loop over the pages of one query             *)
(***************************************************************************)
InitPages ==
    /\ comp = "pages"
    /\ server \in [1..MaxPages -> PageResponses]
    /\ page = 1
    /\ requested = <<>>
    /\ sector_articles = <<>>
    /\ pages_pc = "loop"
    /\ task_outcome = <<>>
    /\ futures = <<>>
    /\ num_threads = 0
    /\ idle_semaphore = 0
    /\ peak_running = 0
    /\ threaded_articles = <<>>
    /\ fetch_pc = "idle"
    /\ IdleDedup
    /\ IdleQuery
    /\ IdleMatcher
    /\ IdleScorer
    /\ IdleBulk
    /\ IdlePipeline

\* One pass of the while loop: the request for `page`, the articles of the
\* response added to all_articles, and the break or the next page
\* (lines 130-167)
RequestPage ==
    /\ comp = "pages"
    /\ pages_pc = "loop"
    /\ page <= MaxPages
    /\ requested' = Append(requested, page)
    /\ sector_articles' = Extend(sector_articles, PageArticles(server[page], page))
    /\ IF Breaks(server[page])
       THEN /\ pages_pc' = "break"
            /\ UNCHANGED page
       ELSE /\ page' = NextPage(page)
            /\ UNCHANGED pages_pc
    /\ UNCHANGED <<comp, server, varsPool, varsDedup, varsQuery, varsMatcher,
                   varsScorer, varsBulk, varsPipeline>>

\* return all_articles  (lines 169-170)
ReturnSectorArticles ==
    /\ comp = "pages"
    /\ pages_pc = "break"
    /\ pages_pc' = "returned"
    /\ UNCHANGED <<comp, server, page, requested, sector_articles, varsPool,
                   varsDedup, varsQuery, varsMatcher, varsScorer, varsBulk,
                   varsPipeline>>

NextPages == RequestPage \/ ReturnSectorArticles

SpecPages == InitPages /\ [][NextPages]_vars

\* Every request returns or times out (FETCH_TIMEOUT) and the sleep between
\* two pages ends: the call goes on as long as it has a step to take.
SpecPagesLive == SpecPages /\ WF_vars(NextPages)
(***************************************************************************)
(* The program                                                             *)
(***************************************************************************)
Init ==
    InitDedup \/ InitQuery \/ InitMatcher \/ InitScorer \/ InitBulk
        \/ InitLookup \/ InitPipeline \/ InitPool \/ InitPages

Next ==
    NextDedup \/ NextQuery \/ NextMatcher \/ NextScorer \/ NextBulk
        \/ NextLookup \/ NextPipeline \/ NextPool \/ NextPages

Spec == Init /\ [][Next]_vars

(***************************************************************************)
(* Claims                                                                  *)
(***************************************************************************)
\* The index of the first article of `articles` whose url is u.
FirstWithUrl(articles, u) ==
    CHOOSE i \in DOMAIN articles :
        /\ articles[i].url = u
        /\ \A j \in 1..(i - 1) : articles[j].url /= u

\* C3: the result of deduplicate_articles has as keys exactly the URLs of the
\* input that are neither missing nor empty, and under each the first input
\* article carrying that URL.
C3_DedupFirstWins ==
    dedup_pc = "done" =>
        /\ DOMAIN unique_articles =
               {all_articles[i].url : i \in DOMAIN all_articles} \ {None, ""}
        /\ \A u \in DOMAIN unique_articles :
               unique_articles[u] = all_articles[FirstWithUrl(all_articles, u)]

\* A call on an input with a missing URL and with two different articles of
\* one URL, the second of which was discarded.
C3_Witness ==
    /\ dedup_pc = "done"
    /\ \E i, j \in DOMAIN all_articles :
           /\ i < j
           /\ all_articles[i].url = "a"
           /\ all_articles[j].url = "a"
           /\ all_articles[i].title /= all_articles[j].title
           /\ unique_articles["a"] = all_articles[i]
    /\ \E i \in DOMAIN all_articles : all_articles[i].url = None


\* The startups of the catalog whose display name is in the name clause of q.
NamedIn(q) ==
    {all_startups_data[i].id :
        i \in {j \in DOMAIN all_startups_data :
                  all_startups_data[j].name \in Range(q.names)}}

\* C1: a QuerySpec that names a startup with prior sentiment starts one day
\* before the day of the call, one that names a startup without starts thirty
\* days before it, both end on the day of the call, and no QuerySpec names
\* startups of both kinds.
C1_TierWindows ==
    \A r \in Range(query_results) : \A q \in Range(r.queries) :
        /\ q.to_date = r.today.date
        /\ \A id \in NamedIn(q) :
               IF id \in existing_startup_ids
               THEN q.from_date = r.today.date - 1
               ELSE q.from_date = r.today.date - 30
        /\ NamedIn(q) \subseteq existing_startup_ids
               \/ NamedIn(q) \cap existing_startup_ids = {}

\* A call that returned a QuerySpec of a tracked startup and one of a new one.
C1_Witness ==
    \E r \in Range(query_results) : \E q1, q2 \in Range(r.queries) :
        /\ NamedIn(q1) /= {} /\ NamedIn(q1) \subseteq existing_startup_ids
        /\ NamedIn(q2) /= {} /\ NamedIn(q2) \cap existing_startup_ids = {}
        /\ q1.from_date = q1.to_date - 1
        /\ q2.from_date = q2.to_date - 30

Clauses(queries) ==
    [i \in DOMAIN queries |-> <<queries[i].names, queries[i].keywords>>]

Mentioned(text) ==
    {built_from[i].id :
        i \in {j \in DOMAIN built_from :
                  /\ Strip(built_from[j].name) /= <<>>
                  /\ Occurs(Lower(built_from[j].name), Lower(text))}}

\* C4 (no identifier is missing): the set find_startups_in_text returns after
\* build_engine(entities) holds the id of every entity whose case-folded
\* display name occurs in the case-folded text, also when two entities share
\* a normalized name or one name is inside another.
C4_NoMentionMissing ==
    (last_find.called /\ last_find.build = builds /\ builds > 0
        /\ last_find.outcome = "returned")
    => Mentioned(last_find.text) \subseteq last_find.found_ids

\* C5: a find_startups_in_text call that no build_engine call preceded raises.
C5_FindBeforeBuildRaises ==
    (last_find.called /\ last_find.build = 0) => last_find.outcome = "raised"

\* C6: the records one analyze_article_sentiments call returns hold no
\* (articleId, startupId) pair twice, whatever the job lists.
C6_NoDuplicatePair ==
    scoring.called =>
        \A i, j \in DOMAIN scoring.db_records :
            (/\ scoring.db_records[i].articleId = scoring.db_records[j].articleId
             /\ scoring.db_records[i].startupId = scoring.db_records[j].startupId)
            => i = j

\* C7: when the backend raises, the scoring call raises; it does not return
\* a list.
C7_BackendFailurePropagates ==
    (scoring.called /\ scoring.backend = "raised") => scoring.outcome = "raised"

\* The score a record stores for a label.
ScoreOf(record, label) ==
    IF label = "positive" THEN record.positiveScore
    ELSE IF label = "neutral" THEN record.neutralScore
    ELSE record.negativeScore

\* C8: the sentiment of every emitted record is a label with the maximal score
\* of the record, and no label earlier in the order positive, neutral,
\* negative has that score.
C8_SentimentIsFirstArgmax ==
    scoring.called =>
        \A r \in Range(scoring.db_records) :
            /\ r.sentiment \in {"positive", "neutral", "negative"}
            /\ ScoreOf(r, r.sentiment) >= r.positiveScore
            /\ ScoreOf(r, r.sentiment) >= r.neutralScore
            /\ ScoreOf(r, r.sentiment) >= r.negativeScore
            /\ r.sentiment = "neutral" => r.positiveScore < r.neutralScore
            /\ r.sentiment = "negative" =>
                   (r.positiveScore < r.negativeScore
                    /\ r.neutralScore < r.negativeScore)

\* An emitted record whose maximal score two labels share, the first of them
\* being its sentiment.
C8_Witness ==
    /\ scoring.called
    /\ \E r \in Range(scoring.db_records) :
           /\ r.neutralScore = r.negativeScore
           /\ r.positiveScore < r.neutralScore
           /\ r.sentiment = "neutral"
    /\ \E r \in Range(scoring.db_records) :
           /\ r.positiveScore = r.negativeScore
           /\ r.neutralScore < r.positiveScore
           /\ r.sentiment = "positive"

\* The job lists no startup id twice.
DistinctJob ==
    \A i, j \in DOMAIN job_startups :
        job_startups[i].id = job_startups[j].id => i = j

\* round(score, 4) of a backend score, as the claim reads it off the backend's
\* list: thirds of 0.0001 to the nearest 0.0001.
Rounded(raw) == CHOOSE n \in 0..raw : 3 * n - 1 <= raw /\ raw <= 3 * n + 1

\* C10: for a job of n distinct startups the call hands the backend exactly
\* 3 * n pairs, the pair of the k-th label of the j-th startup at place
\* 3 * (j - 1) + k with that startup and label as its tag, and when the
\* backend returns one score per pair the call returns exactly one record per
\* startup of the job, in order, whose three scores are the backend's scores
\* of that startup's three pairs.
C10_OneRecordPerPair ==
    (scoring.called /\ DistinctJob) =>
        /\ Len(scoring.pairs) = 3 * Len(job_startups)
        /\ Len(scoring.mapping) = 3 * Len(job_startups)
        /\ \A j \in DOMAIN job_startups : \A k \in 1..3 :
               LET i == 3 * (j - 1) + k IN
               /\ scoring.mapping[i] =
                      [startup_id |-> job_startups[j].id, label |-> Labels[k]]
               /\ scoring.pairs[i].hypothesis =
                      [label |-> Labels[k], name |-> job_startups[j].name]
        /\ scoring.backend = "ok" =>
               /\ Len(scoring.db_records) = Len(job_startups)
               /\ \A j \in DOMAIN job_startups :
                      LET r == scoring.db_records[j] IN
                      /\ r.articleId = job_article.id
                      /\ r.startupId = job_startups[j].id
                      /\ r.positiveScore = Rounded(scoring.scores[3 * (j - 1) + 1])
                      /\ r.neutralScore = Rounded(scoring.scores[3 * (j - 1) + 2])
                      /\ r.negativeScore = Rounded(scoring.scores[3 * (j - 1) + 3])

\* A successful call on a job of two startups whose six scores are not all
\* the same after rounding.
C10_Witness ==
    /\ scoring.called
    /\ DistinctJob
    /\ Len(job_startups) = 2
    /\ scoring.backend = "ok"
    /\ Len(scoring.db_records) = 2
    /\ scoring.db_records[1].positiveScore /= scoring.db_records[1].negativeScore
    /\ scoring.db_records[1].positiveScore /= scoring.db_records[2].positiveScore

\* C9: with the same jobs and the same deterministic backend, two runs of the
\* bulk scorer with different mini-batch sizes return the same records: the
\* same pairs in the same order with the same scores and the same labels.
C9_BatchSizeInvariant ==
    Len(bulk_runs) = 2 => bulk_runs[1].records = bulk_runs[2].records

\* A run with mini-batches of one pair and a run with one mini-batch for all
\* pairs, over two jobs, that returned the same records, not all alike.
C9_Witness ==
    /\ Len(bulk_runs) = 2
    /\ bulk_runs[1].batch_size = 1
    /\ bulk_runs[2].batch_size = MODEL_BATCH_SIZE
    /\ Len(articles_to_process) = 2
    /\ Len(bulk_runs[1].records) >= 2
    /\ bulk_runs[1].records = bulk_runs[2].records
    /\ \E r1, r2 \in Range(bulk_runs[1].records) :
           /\ r1.positiveScore /= r2.positiveScore
           /\ r1.sentiment /= r2.sentiment

(***************************************************************************)
(* Claims about the groups and keyword clauses of build_sector_queries     *)
(***************************************************************************)
\* The (category, recency tier) groups of the catalog: the ids of the startups
\* of category sec that are tracked (have prior sentiment) or are not.
GroupOf(sec, tracked) ==
    {all_startups_data[i].id :
        i \in {j \in DOMAIN all_startups_data :
                  /\ all_startups_data[j].sectorId = sec
                  /\ (all_startups_data[j].id \in existing_startup_ids) = tracked}}

\* The category name and the auxiliary keywords of the startups in ids.
KeywordsOf(ids) ==
    UNION {{all_startups_data[i].sectorName}
               \cup Range(all_startups_data[i].findingKeywords) :
           i \in {j \in DOMAIN all_startups_data : all_startups_data[j].id \in ids}}

\* The QuerySpecs of `queries` that name a startup of ids.
SpecsNaming(queries, ids) ==
    {i \in DOMAIN queries : NamedIn(queries[i]) \cap ids /= {}}

IsBlank(k) == k = "" \/ k = " "

\* No keyword of the clause is there twice.
NoRepeat(s) == \A i, j \in DOMAIN s : i /= j => s[i] /= s[j]

\* C13: the keyword clause of every QuerySpec holds exactly the distinct
\* strings, neither empty nor blank, among its group's category name and
\* auxiliary keywords, each once.
C13_KeywordClauseExact ==
    \A r \in Range(query_results) : \A q \in Range(r.queries) :
        /\ Range(q.keywords) =
               {k \in KeywordsOf(NamedIn(q)) : k /= None /\ ~IsBlank(k)}
        /\ NoRepeat(q.keywords)

\* The category of the startups a QuerySpec names.
SectorOf(q) ==
    LET i == CHOOSE j \in DOMAIN all_startups_data :
                 all_startups_data[j].id \in NamedIn(q)
    IN all_startups_data[i].sectorId

\* C14: among the QuerySpecs of the new startups, and among those of the
\* tracked startups, a later QuerySpec has a greater category identifier,
\* whatever the order of the rows of the catalog.
C14_AscendingSector ==
    \A r \in Range(query_results) : \A i, j \in DOMAIN r.queries :
        (/\ i < j
         /\ (NamedIn(r.queries[i]) \subseteq existing_startup_ids)
                = (NamedIn(r.queries[j]) \subseteq existing_startup_ids))
        => SectorOf(r.queries[i]) < SectorOf(r.queries[j])

\* A call on a catalog whose first row is of category 2 and whose second is of
\* category 1, both new, that returned the QuerySpec of category 1 first.
C14_Witness ==
    \E r \in Range(query_results) :
        /\ Len(all_startups_data) = 2
        /\ all_startups_data[1].sectorId > all_startups_data[2].sectorId
        /\ existing_startup_ids = {}
        /\ Len(r.queries) = 2
        /\ SectorOf(r.queries[1]) < SectorOf(r.queries[2])

(***************************************************************************)
(* Claims about main_pipeline                                              *)
(***************************************************************************)
\* No startup of the catalog has a category name or a keyword that is a
\* non-empty string.
NoUsableKeyword(catalog) ==
    \A i \in DOMAIN catalog :
        /\ ~Truthy(catalog[i].sectorName)
        /\ \A k \in Range(catalog[i].findingKeywords) : ~Truthy(k)

\* The calls that write to the database or read the news source.
Called(stage) == stage \in Range(events)

C15_FailedRunRolledBack ==
    (/\ pc = "done"
     /\ failure /= "connect"
     /\ (failure /= "none" \/ match_errors > 0))
    => /\ db = db_start
       /\ tx = NoWrites
       /\ failure /= "none" => Called("rollback")

\* A run that inserted an article, then failed to insert the sentiments, and
\* ended with nothing committed.
C15_Witness ==
    /\ pc = "done"
    /\ failure = "insert_sentiments"
    /\ Called("insert_articles")
    /\ Called("rollback")
    /\ db = db_start

\* C16: after a call raised into main_pipeline, main_pipeline does not return
\* normally and main.py does not report the run as completed.
C16_FailureReachesCaller ==
    (pc = "done" /\ failure /= "none")
    => /\ result = "raised"
       /\ report /= "completed"

\* C17: a run in which the matching of an article raised ends as a failed
\* run (main_pipeline raises or rolls back) and neither scores nor commits.
C17_MatchFailureIsFatal ==
    (pc = "done" /\ match_errors > 0)
    => /\ result = "raised" \/ Called("rollback")
       /\ ~Called("score")
       /\ ~Called("commit")

\* The places of events at which `stage` was called.
PlacesOf(stage) == {i \in DOMAIN events : events[i] = stage}

\* Every call of `later` comes after a call of `earlier`, and no call of
\* `earlier` comes after one of `later`.
InOrder(earlier, later) ==
    \A j \in PlacesOf(later) :
        /\ \E i \in PlacesOf(earlier) : i < j
        /\ \A i \in PlacesOf(earlier) : i < j

\* C18: the stages of a run are called in the order query building, fetch,
\* deduplication, insertion of the new articles, matching, scoring, insertion
\* of the sentiment records; the scorer is called at most once, after every
\* new article has been matched, and the sentiment records are inserted only
\* after it has returned.
C18_StageOrder ==
    /\ InOrder("build_queries", "fetch")
    /\ InOrder("fetch", "dedup")
    /\ InOrder("dedup", "insert_articles")
    /\ InOrder("insert_articles", "match")
    /\ InOrder("match", "score")
    /\ InOrder("score", "insert_sentiments")
    /\ Cardinality(PlacesOf("score")) <= 1
    /\ Called("score") => Cardinality(PlacesOf("match")) = Len(articles_from_db)
    /\ Called("insert_sentiments") =>
           /\ failure /= "score"
           /\ all_sentiment_records /= <<>>

\* A run that matched two new articles, scored once, inserted the sentiment
\* records and committed.
C18_Witness ==
    /\ pc = "done"
    /\ Len(articles_from_db) = 2
    /\ Cardinality(PlacesOf("match")) = 2
    /\ Cardinality(PlacesOf("score")) = 1
    /\ Called("insert_sentiments")
    /\ Called("commit")
    /\ db.sentiments /= db_start.sentiments

(***************************************************************************)
(* Claims about a built StartupSearch                                      *)
(***************************************************************************)
\* C19: while threads search a built matcher in any interleaving, the
\* automaton and the startup_map stay as build_engine left them, and every
\* call that has ended has the outcome and the set of the same call run
\* alone.
C19_ConcurrentFindsAsAlone ==
    builds = 1 =>
        /\ automaton = build_engine(built_from, EmptyDict).automaton
        /\ startup_map = build_engine(built_from, EmptyDict).startup_map
        /\ \A t \in Threads :
               finds[t].pc = "done" =>
                   LET alone == find_startups_in_text(automaton, finds[t].text)
                   IN /\ finds[t].outcome = alone.outcome
                      /\ finds[t].outcome = "returned"
                             => finds[t].found_ids = alone.found_ids

\* Two calls on an automaton of two words, the second begun while the first
\* was inside its loop, have both returned, the first with an id and the
\* second with none.
C19_Witness ==
    /\ builds = 1
    /\ finds[2].pc = "done" /\ finds[2].overlaps
    /\ finds[1].pc = "done" /\ finds[2].pc = "done"
    /\ finds[1].outcome = "returned" /\ finds[2].outcome = "returned"
    /\ finds[1].found_ids /= {}
    /\ finds[2].found_ids = {}
    /\ Cardinality(DOMAIN automaton.words) = 2

\* The ids of the entities of the latest build_engine call whose display name
\* is neither empty nor blank.
LatestCatalogIds ==
    {built_from[i].id :
        i \in {j \in DOMAIN built_from : Strip(built_from[j].name) /= <<>>}}

\* C20: after any sequence of build_engine calls, get_startup_info returns
\* the original display name of every id that find_startups_in_text can
\* return, and nothing for an entity that is absent from the latest catalog
\* or was left out of the automaton for an empty or blank name.
C20_MapIsLatestCatalog ==
    builds > 0 =>
        /\ \A i \in DOMAIN built_from :
               built_from[i].id \in {automaton.words[k] : k \in DOMAIN automaton.words} =>
                   get_startup_info(startup_map, built_from[i].id) =
                       <<[id |-> built_from[i].id, name |-> built_from[i].name]>>
        /\ \A id \in EntityIds \ LatestCatalogIds :
               get_startup_info(startup_map, id) = <<>>

(***************************************************************************)
(* Claims about what is persisted, the fetch layer and the connection      *)
(***************************************************************************)
\* The urls stored when the run started, as fetch_existing_urls reads them
\* (nothing is committed between the start of a run and line 52).
ExistingUrlsOfRun == fetch_existing_urls(db_start, NoWrites)

\* C21: the articles main_pipeline passes to batch_insert_articles have
\* pairwise distinct, non-empty urls, none of which is among the urls
\* fetch_existing_urls has read in the run; every row the run writes to
\* "Articles" is for one of them, and no two rows of "Articles" have the same
\* url.
C21_InsertedUrlsNewAndDistinct ==
    /\ \A i, j \in DOMAIN new_article_data :
           i /= j => new_article_data[i].url /= new_article_data[j].url
    /\ \A i \in DOMAIN new_article_data :
           /\ Truthy(new_article_data[i].url)
           /\ new_article_data[i].url \notin ExistingUrlsOfRun
    /\ \A r \in tx.articles :
           /\ Called("insert_articles")
           /\ \E i \in DOMAIN new_article_data : new_article_data[i].url = r.url
    /\ \A r, s \in VisibleArticles(db, tx) : r.url = s.url => r = s

\* A run that fetched two articles, one of them with a url that is stored
\* already, and inserted the other one only.
C21_Witness ==
    /\ Called("insert_articles")
    /\ Len(all_articles) = 2
    /\ \E i \in DOMAIN all_articles : all_articles[i].url \in ExistingUrlsOfRun
    /\ Len(new_article_data) = 1
    /\ Cardinality(tx.articles) = 1

\* The number of times x occurs in list.
CountIn(list, x) == Cardinality({i \in DOMAIN list : list[i] = x})

\* The number of times x occurs in the lists of the tasks 1..q that return.
RECURSIVE ReturnedCount(_, _, _)
ReturnedCount(outcomes, q, x) ==
    IF q = 0 THEN 0
    ELSE ReturnedCount(outcomes, q - 1, x)
         + (IF outcomes[q] = "returns" THEN CountIn(TaskArticles(q), x) ELSE 0)

\* C22: fetch_articles_threaded submits one task per query, never more; at
\* most THREAD_COUNT tasks run at one time; and when it has returned, every
\* task has run and been yielded once, and the list returned holds every
\* article as many times as the lists of the tasks that returned hold it
\* together, whatever the order in which the tasks ran and finished: a task
\* that raised adds nothing and takes nothing away.
C22_PoolReturnsUnionOfTasks ==
    /\ Len(futures) <= Len(task_outcome)
    /\ Cardinality(InState(futures, "running")) <= THREAD_COUNT
    /\ peak_running <= THREAD_COUNT
    /\ fetch_pc = "returned" =>
           /\ Len(futures) = Len(task_outcome)
           /\ \A q \in DOMAIN futures :
                  /\ futures[q].yielded
                  /\ futures[q].state =
                         IF task_outcome[q] = "returns" THEN "returned"
                         ELSE "raised"
           /\ \A x \in {"x", "y"} :
                  CountIn(threaded_articles, x)
                      = ReturnedCount(task_outcome, Len(task_outcome), x)
           /\ \A i \in DOMAIN threaded_articles :
                  threaded_articles[i] \in {"x", "y"}

\* A call with more queries than workers has returned: THREAD_COUNT tasks
\* ran at one time, the first task raised, and the article that three of the
\* other tasks returned is in the list three times.
C22_Witness ==
    /\ fetch_pc = "returned"
    /\ Len(task_outcome) = MaxQueries
    /\ peak_running = THREAD_COUNT
    /\ task_outcome[1] = "raises"
    /\ CountIn(threaded_articles, "x") = 3
    /\ CountIn(threaded_articles, "y") = 2

\* The articles of the pages 1..p, in page order.
RECURSIVE PagesUpTo(_, _)
PagesUpTo(srv, p) ==
    IF p = 0 THEN <<>>
    ELSE PagesUpTo(srv, p - 1) \o PageArticles(srv[p], p)

\* A page at which the claim says the loop stops: its request fails, its
\* article list is missing or empty, or it holds fewer than API_PAGE_SIZE
\* articles.
StoppingPage(srv, p) ==
    \/ srv[p].kind \in {"fails", "missing"}
    \/ srv[p].count = 0
    \/ srv[p].count < API_PAGE_SIZE

\* The pages are requested in the order 1, 2, 3, ..., none of them after a
\* stopping page; the loop is left at a stopping page only; what is returned
\* is the articles of the pages requested, in page order.
PagesInOrderUntilStop ==
    /\ requested = [i \in 1..Len(requested) |-> i]
    /\ \A i \in DOMAIN requested :
           \A j \in 1..(i - 1) : ~StoppingPage(server, j)
    /\ pages_pc \in {"break", "returned"} =>
           /\ requested /= <<>>
           /\ StoppingPage(server, Len(requested))
    /\ pages_pc = "returned" =>
           sector_articles = PagesUpTo(server, Len(requested))

\* C23: fetch_sector_articles requests the pages 1, 2, 3, ... in order, none
\* twice and none skipped, stops at the first stopping page and returns the
\* articles of the pages up to and including it, in page order; and when
\* the server has a stopping page, the call returns.
C23_PagesUntilFirstStop ==
    /\ []PagesInOrderUntilStop
    /\ (\E p \in DOMAIN server : StoppingPage(server, p))
           => <>(pages_pc = "returned")

\* A call that got two full pages and a third one short of one article, and
\* returned the articles of the three.
C23_Witness ==
    /\ pages_pc = "returned"
    /\ requested = <<1, 2, 3>>
    /\ server[3].count = API_PAGE_SIZE - 1
    /\ Len(sector_articles) = 3 * API_PAGE_SIZE - 1
    /\ sector_articles[API_PAGE_SIZE + 1] = <<2, 1>>

\* The calls that write to the database.
DbWrites == {"insert_articles", "insert_sentiments"}

\* The rows of "Articles" for the new articles of the run, and the keys of
\* the sentiment rows for its sentiment records.
RowsOfRun == {StoredArticle(a.url, a.title, a.content) : a \in Range(new_article_data)}
KeysOfRun ==
    {[articleId |-> r.articleId, startupId |-> r.startupId] :
        r \in Range(all_sentiment_records)}

\* C24: a run calls conn.commit() at most once and writes nothing after it;
\* the inserts do not commit: nothing of the run is durable before a commit
\* that succeeded, and from then on the articles of the run and its
\* sentiment records are durable together; a run that returns because no new
\* article mentions a startup has committed nothing, and the articles it
\* inserted are not in the database when it ends.
C24_OneCommitLast ==
    /\ Cardinality(PlacesOf("commit")) <= 1
    /\ \A i \in PlacesOf("commit") :
           \A j \in DOMAIN events : j > i => events[j] \notin DbWrites
    /\ (~Called("commit") \/ pc = "commit" \/ failure = "commit") => db = db_start
    /\ db /= db_start =>
           /\ db.articles = db_start.articles \cup RowsOfRun
           /\ db.sentiments = db_start.sentiments \cup KeysOfRun
           /\ tx = NoWrites
    /\ (pc = "match" /\ Called("insert_articles")) => tx.articles = RowsOfRun
    /\ (/\ pc \in {"finally", "done"}
        /\ Called("insert_articles")
        /\ failure = "none"
        /\ ~Called("score"))
       => /\ ~Called("commit")
          /\ db = db_start
          /\ pc = "done" => tx = NoWrites /\ result = "returned"

\* A run that inserted a new article in which no startup is named, and
\* returned without matching error, commit or rollback: the article is not
\* in the database.
C24_Witness ==
    /\ pc = "done"
    /\ Called("insert_articles")
    /\ Called("match")
    /\ match_errors = 0
    /\ failure = "none"
    /\ ~Called("score")
    /\ ~Called("commit")
    /\ ~Called("rollback")
    /\ new_article_data /= <<>>
    /\ db.articles = db_start.articles

\* get_connection() returned a connection in this run.
ConnectionObtained == Called("connect") /\ failure /= "connect"

\* C25: when main_pipeline has ended after it obtained a connection, by a
\* return or by an exception, conn.close() has been called exactly once, as
\* the last call of the run; conn.rollback() has been called (once) exactly
\* when a call raised into main_pipeline, and then nothing was committed;
\* before the end of the run the connection is not closed, and a run that
\* obtained no connection neither closes nor rolls back.
C25_ClosedOnceRollbackOnFailure ==
    /\ Called("close") => pc = "done" /\ ConnectionObtained
    /\ Called("rollback") => ConnectionObtained
    /\ (pc = "done" /\ ConnectionObtained) =>
           /\ Cardinality(PlacesOf("close")) = 1
           /\ events[Len(events)] = "close"
           /\ conn = "closed"
           /\ Called("rollback") <=> failure /= "none"
           /\ Cardinality(PlacesOf("rollback")) <= 1
           /\ Called("rollback") => db = db_start
           /\ (Called("commit") /\ failure /= "commit") => ~Called("rollback")

\* A run whose insert of the sentiment records raised and lost the
\* connection: conn.rollback() was called and raised, the connection was
\* closed all the same, and the exception left main_pipeline.
C25_Witness ==
    /\ pc = "done"
    /\ failure = "insert_sentiments"
    /\ fault.lost
    /\ result = "raised"
    /\ Called("rollback")
    /\ Cardinality(PlacesOf("close")) = 1
    /\ conn = "closed"
====
